---- MODULE Spec2Model ----
(***************************************************************************)
(* Model of the ICS Terraform provider: catalog resolution                 *)
(* (client.go FindSKUByProductName), the bare-metal server Create handler  *)
(* and its provisioning poller (waitForServerProvisioning).                *)
(*                                                                         *)
(* Time is counted in seconds.  A backend call is a nondeterministic       *)
(* answer of the environment, drawn with \E from the small universes       *)
(* below; every call fetches a fresh answer (the client caches nothing).   *)
(***************************************************************************)
EXTENDS Integers, Sequences, FiniteSets, TLC

VARIABLES
    op,            \* the entry point being executed
    pc,            \* position inside that entry point
    plan,          \* req.Plan of Create (BareMetalServerResourceModel inputs)
    request,       \* arguments of a direct FindSKUByProductName call
    inventory,     \* last inventory fetch kept by the running code (Option)
    ret,           \* return value of FindSKUByProductName: [item, err]
    sku,           \* Create's local sku (Option of InventoryItem)
    os,            \* Create's local os (Option of OperatingSystemItem)
    keyIdx,        \* number of SSH key labels already looked up
    sshKeyIDs,     \* Create's local sshKeyIDs
    orderReq,      \* Create's local orderReq (Option of ServerOrderRequest)
    orderCalls,    \* order POSTs issued
    orderResp,     \* Option of the ServerOrderResponse received
    alternatives,  \* suggestion lists computed on a failed resolution
    serviceID,     \* poll target
    timeout,       \* timeout argument of waitForServerProvisioning
    now,           \* wall clock (seconds)
    deadline,      \* poller's deadline
    cancelled,     \* ctx.Done() is closed
    queries,       \* server-list queries issued by the poller
    slowQueries,   \* how many of them ran into the HTTP client timeout
    lastKind,      \* kind of the answer the poller is sleeping on
    sawError,      \* some poll of this wait ended in a transport error
    lastPoll,      \* answer of the last server-list query (Option),
                   \* observed when the poller is called directly
    pollRet,       \* return value of waitForServerProvisioning: [server, err]
    nameCalls,     \* UpdateServerFriendlyName calls issued: <<id, name>>
    diagErrors,    \* resp.Diagnostics errors (summaries)
    diagWarnings,  \* resp.Diagnostics warnings (summaries)
    state,         \* resp.State (Option of the saved model)
    scanned,       \* type/location pairs with positive quantity in the
                   \* snapshot a failed FindSKUByProductName scanned (Option)
    catalog,       \* the addon catalog a failed OS match ran over (Option)
    cancelCalls,   \* CancelServer calls issued: the server ids
    prior,         \* req.State of Read, Update and Delete (Option)
    lastKeys,      \* answer of the last credential-list query (Option)
    keyCalls,      \* calls of the credential endpoints issued by the
                   \* SSH key handlers, in order
    backendKeys,   \* the credential list the backend holds during an
                   \* SSH key Create
    importID,      \* req.ID of ImportState
    callErr        \* error returned by the cancel or delete call of Delete
                   \* ("" when it succeeded or was not issued)

vars == <<op, pc, plan, request, inventory, ret, sku, os, keyIdx, sshKeyIDs,
          orderReq, orderCalls, orderResp, alternatives, serviceID, timeout,
          now, deadline, cancelled, queries, slowQueries, lastKind, sawError,
          lastPoll, pollRet, nameCalls, diagErrors, diagWarnings, state,
          scanned, catalog, cancelCalls, prior, lastKeys, keyCalls,
          backendKeys, importID,
          callErr>>

----------------------------------------------------------------------------
(* Bounds of the model *)

\* longest inventory list the backend returns
MaxInv == 2
\* longest server list the backend returns
MaxServers == 2
\* longest ssh_key_labels list of a plan
MaxLabels == 2
\* longest credential list the backend returns
MaxKeys == 2
\* longest order_service_ids list the backend returns
MaxOrderIDs == 2
\* most server-list queries of one wait that run into the HTTP client timeout
MaxSlowQueries == 1

(* Program constants *)

\* 30*time.Minute, the timeout Create passes to the poller
ProvisioningTimeout == 1800
\* time.Sleep(30 * time.Second) after an unsuccessful query
SleepInterval == 30
\* http.Client Timeout: the longest a single backend call can take
HTTPClientTimeout == 300

----------------------------------------------------------------------------
(* Universes of input values *)

\* types.String null
NullString == "<null>"
None == <<>>
Some(x) == <<x>>
IsSome(o) == Len(o) = 1
Get(o) == o[1]

InstanceTypes == {"c1.small", "c2.large"}
LocationCodes == {"NYC1", "ORD1"}
Quantities == {0, 3}
Labels == {"laptop", "ci"}

SeqsUpTo(S, n) == UNION {[1..k -> S] : k \in 0..n}

\* InventoryItem, restricted to the fields the provider reads
InventoryItems ==
    [SkuProductName : InstanceTypes, LocationCode : LocationCodes,
     AutoProvisionQuantity : Quantities]

\* result of GetInventory: a transport/status/decoding error or the list
InventoryResults ==
    {[err |-> "failed to get inventory", items |-> <<>>]} \cup
    {[err |-> "", items |-> s] : s \in SeqsUpTo(InventoryItems, MaxInv)}

\* OperatingSystemItem / LicenseItem, restricted to name and product code
OSItems ==
    {[Name |-> "Ubuntu 24.04", ProductCode |-> "UBUNTU_24_04"],
     [Name |-> "ubuntu 24.04", ProductCode |-> "UBUNTU_LOWER"],
     [Name |-> "Debian 12", ProductCode |-> "DEBIAN_12"]}
LicenseItems == {[Name |-> "Ubuntu 24.04", ProductCode |-> "LICENSE_PRO"]}

\* longest operating-system product list of an addon catalog
MaxAddons == 2

\* result of GetAddons: an error or the AddonsResponse
AddonsResults ==
    {[err |-> "failed to get addons", OperatingSystems |-> <<>>, Licenses |-> <<>>]} \cup
    {[err |-> "", OperatingSystems |-> p, Licenses |-> l] :
        p \in SeqsUpTo(OSItems, MaxAddons), l \in SeqsUpTo(LicenseItems, 1)}

\* SSHKey records the backend can list
SSHKeys ==
    [ID : {11, 12}, Label : Labels, Key : {"ssh-ed25519 AAAA"},
     CreatedAt : {1700000000}, UpdatedAt : {1700000000}]

\* result of GetSSHKeys
SSHKeysResults ==
    {[err |-> "failed to get SSH keys", keys |-> <<>>]} \cup
    {[err |-> "", keys |-> s] : s \in SeqsUpTo(SSHKeys, MaxKeys)}

ServiceIDs == {500, 501}

\* result of OrderServer: a timeout-class error, any other error, or the
\* decoded ServerOrderResponse (never nil when err is nil)
OrderResults ==
    {[err |-> "Client.Timeout exceeded", OrderServiceIDs |-> <<>>],
     [err |-> "API request failed with status", OrderServiceIDs |-> <<>>]} \cup
    {[err |-> "", OrderServiceIDs |-> s] : s \in SeqsUpTo(ServiceIDs, MaxOrderIDs)}

\* Server records the backend can list
Servers ==
    {[ID |-> "srv-a", ServiceID |-> 500, Hostname |-> "web1", FriendlyName |-> "",
      PublicIP |-> "192.0.2.10", RootPassword |-> "pw-a",
      ServiceDescription |-> "c1.small NYC1", PlanID |-> 7,
      DatacenterName |-> "New York", DatacenterID |-> 1, LocationID |-> 10,
      ServerType |-> "bare-metal"],
     [ID |-> "srv-b", ServiceID |-> 500, Hostname |-> "", FriendlyName |-> "old",
      PublicIP |-> "192.0.2.11", RootPassword |-> "pw-b",
      ServiceDescription |-> "c2.large ORD1", PlanID |-> 8,
      DatacenterName |-> "Chicago", DatacenterID |-> 2, LocationID |-> 20,
      ServerType |-> "bare-metal"],
     [ID |-> "srv-c", ServiceID |-> 501, Hostname |-> "db1", FriendlyName |-> "db",
      PublicIP |-> "192.0.2.12", RootPassword |-> "pw-c",
      ServiceDescription |-> "c1.small ORD1", PlanID |-> 7,
      DatacenterName |-> "Chicago", DatacenterID |-> 2, LocationID |-> 20,
      ServerType |-> "bare-metal"]}

\* result of GetServers
ServersResults ==
    {[err |-> "failed to get servers", servers |-> <<>>]} \cup
    {[err |-> "", servers |-> s] : s \in SeqsUpTo(Servers, MaxServers)}

\* ssh_key_labels of a plan: null, or a list of labels
LabelLists ==
    {[null |-> TRUE, elems |-> <<>>]} \cup
    {[null |-> FALSE, elems |-> s] : s \in SeqsUpTo(Labels, MaxLabels)}

\* the plans Create is run on (input attributes of the resource model)
PlanInstanceTypes == {"c1.small"}
PlanLocations == {"NYC1", ""}
PlanOSNames == {"Ubuntu 24.04"}
Plans ==
    [InstanceType : PlanInstanceTypes, Location : PlanLocations,
     OperatingSystem : PlanOSNames, Hostname : {NullString, "web1"},
     FriendlyName : {NullString, "web"}, SSHKeyLabels : LabelLists]

\* the requests FindSKUByProductName is run on directly
Requests == [productName : InstanceTypes, locationCode : LocationCodes \cup {""}]

\* the timeouts waitForServerProvisioning is run on directly
Timeouts == {0, SleepInterval, 2 * SleepInterval + 15, ProvisioningTimeout}

----------------------------------------------------------------------------
(* client.go *)

\* FindSKUScan accepting an entry whatever its auto-provisionable quantity
RECURSIVE FindSKUScanAnyQuantity(_, _, _, _)
FindSKUScanAnyQuantity(items, productName, locationCode, i) ==
    IF i > Len(items) THEN None
    ELSE IF items[i].SkuProductName = productName
         THEN IF locationCode # "" /\ items[i].LocationCode # locationCode
              THEN FindSKUScanAnyQuantity(items, productName, locationCode, i + 1)
              ELSE Some(items[i])
         ELSE FindSKUScanAnyQuantity(items, productName, locationCode, i + 1)

\* FindSKUScan keeping the last qualifying item of the list
RECURSIVE FindSKUScanLast(_, _, _, _)
FindSKUScanLast(items, productName, locationCode, i) ==
    IF i > Len(items) THEN None
    ELSE LET rest == FindSKUScanLast(items, productName, locationCode, i + 1) IN
         IF IsSome(rest) THEN rest
         ELSE IF /\ items[i].SkuProductName = productName
                 /\ (locationCode = "" \/ items[i].LocationCode = locationCode)
                 /\ items[i].AutoProvisionQuantity > 0
              THEN Some(items[i])
              ELSE None

\* the scan of FindSKUByProductName from index i on: first qualifying item
RECURSIVE FindSKUScan(_, _, _, _)
FindSKUScan(items, productName, locationCode, i) ==
    IF i > Len(items) THEN None
    ELSE IF items[i].SkuProductName = productName
         THEN IF locationCode # "" /\ items[i].LocationCode # locationCode
              THEN FindSKUScan(items, productName, locationCode, i + 1)
              ELSE IF items[i].AutoProvisionQuantity > 0
                   THEN Some(items[i])
                   ELSE FindSKUScan(items, productName, locationCode, i + 1)
         ELSE FindSKUScan(items, productName, locationCode, i + 1)

\* FindSKUByProductName with an error of its own for an unlisted product name
FindSKUByProductNameUnlisted(inv, productName, locationCode) ==
    IF inv.err # ""
    THEN [item |-> None, err |-> "failed to get inventory"]
    ELSE LET found == FindSKUScan(inv.items, productName, locationCode, 1)
         IN  IF IsSome(found) THEN [item |-> found, err |-> ""]
             ELSE IF \A i \in 1..Len(inv.items) :
                        inv.items[i].SkuProductName # productName
                  THEN [item |-> None, err |-> "SKU not found"]
                  ELSE IF locationCode # ""
                  THEN [item |-> None,
                        err |-> "SKU not found with auto provision inventory in location"]
                  ELSE [item |-> None,
                        err |-> "SKU not found with auto provision inventory"]

\* FindSKUByProductName on the answer inv of its GetInventory call
FindSKUByProductName(inv, productName, locationCode) ==
    IF inv.err # ""
    THEN [item |-> None, err |-> "failed to get inventory"]
    ELSE LET found == FindSKUScan(inv.items, productName, locationCode, 1)
         IN  IF IsSome(found) THEN [item |-> found, err |-> ""]
             ELSE IF locationCode # ""
                  THEN [item |-> None,
                        err |-> "SKU not found with auto provision inventory in location"]
                  ELSE [item |-> None,
                        err |-> "SKU not found with auto provision inventory"]

\* ServerScan returning the last entry with the identifier
RECURSIVE ServerScanLast(_, _, _)
ServerScanLast(servers, id, i) ==
    IF i > Len(servers) THEN None
    ELSE LET rest == ServerScanLast(servers, id, i + 1) IN
         IF IsSome(rest) THEN rest
         ELSE IF servers[i].ServiceID = id THEN Some(servers[i]) ELSE None

\* GetServerByServiceID on the answer res of its GetServers call
RECURSIVE ServerScan(_, _, _)
ServerScan(servers, id, i) ==
    IF i > Len(servers) THEN None
    ELSE IF servers[i].ServiceID = id THEN Some(servers[i])
         ELSE ServerScan(servers, id, i + 1)

GetServerByServiceID(res, id) ==
    IF res.err # "" THEN [server |-> None, err |-> res.err]
    ELSE LET found == ServerScan(res.servers, id, 1)
         IN  IF IsSome(found) THEN [server |-> found, err |-> ""]
             ELSE [server |-> None, err |-> "server with service ID not found"]

\* GetSSHKeyByLabel on the answer res of its GetSSHKeys call
RECURSIVE SSHKeyScan(_, _, _)
SSHKeyScan(keys, label, i) ==
    IF i > Len(keys) THEN None
    ELSE IF keys[i].Label = label THEN Some(keys[i])
         ELSE SSHKeyScan(keys, label, i + 1)

GetSSHKeyByLabel(res, label) ==
    IF res.err # "" THEN [key |-> None, err |-> "failed to get SSH keys"]
    ELSE LET found == SSHKeyScan(res.keys, label, 1)
         IN  IF IsSome(found) THEN [key |-> found, err |-> ""]
             ELSE [key |-> None, err |-> "SSH key with label not found"]

\* OSScan comparing names without regard to case
RECURSIVE OSScanFold(_, _, _)
OSScanFold(products, osName, i) ==
    LET fold(n) == IF n = "Ubuntu 24.04" THEN "ubuntu 24.04" ELSE n IN
    IF i > Len(products) THEN None
    ELSE IF fold(products[i].Name) = fold(osName) THEN Some(products[i])
         ELSE OSScanFold(products, osName, i + 1)

\* the operating-system loop of Create: first product with the exact name
RECURSIVE OSScan(_, _, _)
OSScan(products, osName, i) ==
    IF i > Len(products) THEN None
    ELSE IF products[i].Name = osName THEN Some(products[i])
         ELSE OSScan(products, osName, i + 1)

----------------------------------------------------------------------------
(* resource model *)

\* types.Int64 null / unknown
NullInt == -1

\* the BareMetalServerResourceModel decoded from a plan: inputs as planned,
\* computed attributes unknown
ModelOfPlan(p) ==
    [InstanceType |-> p.InstanceType, Location |-> p.Location,
     OperatingSystem |-> p.OperatingSystem, Hostname |-> p.Hostname,
     FriendlyName |-> p.FriendlyName, SSHKeyLabels |-> p.SSHKeyLabels,
     ID |-> NullString, ServiceID |-> NullInt, PublicIP |-> NullString,
     RootPassword |-> NullString, ServiceDescription |-> NullString,
     PlanID |-> NullInt, DatacenterName |-> NullString,
     DatacenterID |-> NullInt, LocationID |-> NullInt,
     ServerTypeInternal |-> NullString]

\* updateModelFromServer filling in only what the model does not hold yet
updateModelFromServerKeepKnown(data, server) ==
    LET str(old, new) == IF old = NullString THEN new ELSE old
        int(old, new) == IF old = NullInt THEN new ELSE old IN
    [data EXCEPT
        !.ID = str(data.ID, server.ID),
        !.ServiceID = int(data.ServiceID, server.ServiceID),
        !.PublicIP = str(data.PublicIP, server.PublicIP),
        !.RootPassword = str(data.RootPassword, server.RootPassword),
        !.ServiceDescription = str(data.ServiceDescription, server.ServiceDescription),
        !.PlanID = int(data.PlanID, server.PlanID),
        !.DatacenterName = str(data.DatacenterName, server.DatacenterName),
        !.DatacenterID = int(data.DatacenterID, server.DatacenterID),
        !.LocationID = int(data.LocationID, server.LocationID),
        !.ServerTypeInternal = str(data.ServerTypeInternal, server.ServerType),
        !.Hostname = IF data.Hostname = NullString /\ server.Hostname # ""
                     THEN server.Hostname ELSE data.Hostname,
        !.FriendlyName = IF data.FriendlyName = NullString /\ server.FriendlyName # ""
                         THEN server.FriendlyName ELSE data.FriendlyName]

updateModelFromServer(data, server) ==
    [data EXCEPT
        !.ID = server.ID,
        !.ServiceID = server.ServiceID,
        !.PublicIP = server.PublicIP,
        !.RootPassword = server.RootPassword,
        !.ServiceDescription = server.ServiceDescription,
        !.PlanID = server.PlanID,
        !.DatacenterName = server.DatacenterName,
        !.DatacenterID = server.DatacenterID,
        !.LocationID = server.LocationID,
        !.ServerTypeInternal = server.ServerType,
        !.Hostname = IF data.Hostname = NullString /\ server.Hostname # ""
                     THEN server.Hostname ELSE data.Hostname,
        !.FriendlyName = IF data.FriendlyName = NullString /\ server.FriendlyName # ""
                         THEN server.FriendlyName ELSE data.FriendlyName]

\* one diagnostic: summary and the part of the detail that identifies it
Diag(summary, detail) == [summary |-> summary, detail |-> detail]

NoAlternatives ==
    [availableTypes |-> <<>>, availableLocations |-> <<>>,
     typeLocationMap |-> <<>>, availableOSNames |-> <<>>]

NoRet == [item |-> None, err |-> ""]
NoPollRet == [server |-> None, err |-> "", serviceID |-> NullInt]
NoRequest == [productName |-> "", locationCode |-> ""]

----------------------------------------------------------------------------
(* initial states *)

\* everything a handler has not touched yet
Fresh ==
    /\ inventory = None /\ ret = NoRet /\ sku = None /\ os = None
    /\ keyIdx = 0 /\ sshKeyIDs = <<>> /\ orderReq = None /\ orderCalls = 0
    /\ orderResp = None /\ alternatives = NoAlternatives
    /\ now = 0 /\ deadline = 0 /\ cancelled = FALSE
    /\ queries = 0 /\ slowQueries = 0 /\ lastKind = "" /\ sawError = FALSE
    /\ lastPoll = None /\ pollRet = NoPollRet /\ nameCalls = <<>>
    /\ diagErrors = {} /\ diagWarnings = {} /\ state = None
    /\ scanned = None /\ catalog = None /\ cancelCalls = <<>>
    /\ lastKeys = None /\ keyCalls = <<>> /\ backendKeys = <<>>
    /\ importID = None
    /\ callErr = ""

\* a server Create about to run on some plan
Init ==
    /\ op = "Create" /\ pc = "resolve"
    /\ plan \in Plans /\ request = NoRequest /\ prior = None
    /\ serviceID = NullInt /\ timeout = ProvisioningTimeout
    /\ Fresh

\* a direct call FindSKUByProductName(productName, locationCode)
InitResolve ==
    /\ op = "FindSKUByProductName" /\ pc = "call"
    /\ plan = None /\ request \in Requests /\ prior = None
    /\ serviceID = NullInt /\ timeout = 0
    /\ Fresh

\* a direct call waitForServerProvisioning(ctx, serviceID, timeout)
InitPoller ==
    /\ op = "waitForServerProvisioning" /\ pc = "enter"
    /\ plan = None /\ request = NoRequest /\ prior = None
    /\ serviceID \in ServiceIDs /\ timeout \in Timeouts
    /\ Fresh

----------------------------------------------------------------------------
(* FindSKUByProductName called directly *)

FindSKU ==
    /\ op = "FindSKUByProductName" /\ pc = "call"
    /\ \E inv \in InventoryResults :
          /\ inventory' = Some(inv)
          /\ ret' = FindSKUByProductName(inv, request.productName, request.locationCode)
    /\ pc' = "done"
    /\ UNCHANGED <<op, plan, request, sku, os, keyIdx, sshKeyIDs, orderReq,
                   orderCalls, orderResp, alternatives, serviceID, timeout,
                   now, deadline, cancelled, queries, slowQueries, lastKind,
                   sawError, lastPoll, pollRet, nameCalls, diagErrors,
                   diagWarnings, state, scanned, catalog, cancelCalls, prior,
                   lastKeys, keyCalls, backendKeys, importID,
          callErr>>

NextResolve == FindSKU

SpecResolve == InitResolve /\ [][NextResolve]_vars

----------------------------------------------------------------------------
(* BareMetalServerResource.Create *)

\* the operation has a context and has not returned yet
Running ==
    \/ op = "Create" /\ pc # "done"
    \/ op = "waitForServerProvisioning" /\ pc # "returned"

\* the suggestion lists of a failed resolution, from a fresh inventory
AvailableItems(items) == SelectSeq(items, LAMBDA it : it.AutoProvisionQuantity > 0)
LocationsOf(items) == [i \in 1..Len(items) |-> items[i].LocationCode]
TypesOf(items) == [i \in 1..Len(items) |-> items[i].SkuProductName]
\* what a scan for positive AutoProvisionQuantity can find in a snapshot
AvailablePairs(items) ==
    {<<items[i].SkuProductName, items[i].LocationCode>> :
        i \in {j \in 1..Len(items) : items[j].AutoProvisionQuantity > 0}}
Suggestions(items, instanceType, location) ==
    LET avail == AvailableItems(items) IN
    [availableLocations |->
        LocationsOf(SelectSeq(avail, LAMBDA it : it.SkuProductName = instanceType)),
     availableTypes |->
        TypesOf(SelectSeq(avail, LAMBDA it : it.LocationCode = location)),
     typeLocationMap |->
        [t \in {avail[i].SkuProductName : i \in 1..Len(avail)} |->
            LocationsOf(SelectSeq(avail, LAMBDA it : it.SkuProductName = t))],
     availableOSNames |-> <<>>]

\* BuildOrderRequest billing hourly only when a hostname was given
BuildOrderRequestMonthly(data, osItem) ==
    [SkuProductName |-> data.InstanceType,
     Quantity |-> 1,
     LocationCode |-> data.Location,
     OperatingSystemProductCode |-> osItem.ProductCode,
     BillHourly |-> data.Hostname # NullString,
     Hostname |-> IF data.Hostname # NullString THEN data.Hostname ELSE "",
     SSHKeyIDs |-> <<>>]

\* the ServerOrderRequest built once both validations passed
BuildOrderRequest(data, osItem) ==
    [SkuProductName |-> data.InstanceType,
     Quantity |-> 1,
     LocationCode |-> data.Location,
     OperatingSystemProductCode |-> osItem.ProductCode,
     BillHourly |-> TRUE,
     Hostname |-> IF data.Hostname # NullString THEN data.Hostname ELSE "",
     SSHKeyIDs |-> <<>>]

CreateUnchangedPoller ==
    UNCHANGED <<op, plan, request, timeout, now, deadline, cancelled, queries,
                slowQueries, lastKind, sawError, lastPoll, pollRet, prior,
                lastKeys, keyCalls, backendKeys, importID,
          callErr>>

\* Step 1: FindSKUByProductName(instanceType, location)
CreateFindSKU ==
    /\ op = "Create" /\ pc = "resolve"
    /\ \E inv \in InventoryResults :
          LET r == FindSKUByProductName(inv, plan.InstanceType, plan.Location) IN
          /\ ret' = r
          /\ sku' = r.item
          /\ scanned' = IF inv.err = "" /\ r.err # ""
                        THEN Some(AvailablePairs(inv.items)) ELSE None
          /\ pc' = IF r.err = "" THEN "addons" ELSE "suggest"
    /\ CreateUnchangedPoller
    /\ UNCHANGED <<catalog, cancelCalls>>
    /\ UNCHANGED <<inventory, os, keyIdx, sshKeyIDs, orderReq, orderCalls,
                   orderResp, alternatives, serviceID, nameCalls, diagErrors,
                   diagWarnings, state>>

\* the error branch of step 1: GetInventory again, build the suggestions;
\* the fetched list is a local of the branch and is gone at its return
CreateSuggest ==
    /\ op = "Create" /\ pc = "suggest"
    /\ \E inv \in InventoryResults :
          /\ IF inv.err # ""
             THEN /\ diagErrors' = diagErrors \cup
                        {Diag("Instance Type or Location Invalid", ret.err)}
                  /\ UNCHANGED alternatives
             ELSE /\ alternatives' =
                        Suggestions(inv.items, plan.InstanceType, plan.Location)
                  /\ diagErrors' = diagErrors \cup
                        {Diag("Invalid Instance Type and Location Combination",
                              "Instance type is not available in location")}
    /\ pc' = "done"
    /\ CreateUnchangedPoller
    /\ UNCHANGED <<inventory, scanned, catalog, cancelCalls>>
    /\ UNCHANGED <<ret, sku, os, keyIdx, sshKeyIDs, orderReq, orderCalls,
                   orderResp, serviceID, nameCalls, diagWarnings, state>>

\* Step 2: GetAddons and the operating-system match; then the order request
CreateGetAddons ==
    /\ op = "Create" /\ pc = "addons"
    /\ \E addons \in AddonsResults :
          LET found == OSScan(addons.OperatingSystems, plan.OperatingSystem, 1) IN
          IF addons.err # ""
          THEN /\ diagErrors' = diagErrors \cup
                     {Diag("Unable to Retrieve Operating System Options", addons.err)}
               /\ pc' = "done"
               /\ UNCHANGED <<os, orderReq, alternatives, catalog>>
          ELSE IF found = None
          THEN /\ diagErrors' = diagErrors \cup
                     {Diag("Invalid Operating System", "Operating system is not available")}
               /\ alternatives' =
                     [alternatives EXCEPT !.availableOSNames =
                        [i \in 1..Len(addons.OperatingSystems) |->
                            addons.OperatingSystems[i].Name]]
               /\ catalog' = Some(addons)
               /\ pc' = "done"
               /\ UNCHANGED <<os, orderReq>>
          ELSE /\ os' = found
               /\ orderReq' = Some(BuildOrderRequest(plan, Get(found)))
               /\ pc' = IF plan.SSHKeyLabels.null \/ Len(plan.SSHKeyLabels.elems) = 0
                        THEN "order" ELSE "sshkeys"
               /\ UNCHANGED <<diagErrors, alternatives, catalog>>
    /\ CreateUnchangedPoller
    /\ UNCHANGED <<scanned, cancelCalls>>
    /\ UNCHANGED <<inventory, ret, sku, keyIdx, sshKeyIDs, orderCalls, orderResp,
                   serviceID, nameCalls, diagWarnings, state>>

\* CreateLookupSSHKey skipping a label that has no credential
CreateLookupSSHKeySkipMissing ==
    /\ op = "Create" /\ pc = "sshkeys"
    /\ \E res \in SSHKeysResults :
          LET label == plan.SSHKeyLabels.elems[keyIdx + 1]
              r == GetSSHKeyByLabel(res, label)
              ids == IF r.err # "" THEN sshKeyIDs
                     ELSE Append(sshKeyIDs, Get(r.key).ID)
          IN  /\ sshKeyIDs' = ids
              /\ keyIdx' = keyIdx + 1
              /\ IF keyIdx + 1 = Len(plan.SSHKeyLabels.elems)
                 THEN /\ orderReq' = Some([Get(orderReq) EXCEPT !.SSHKeyIDs = ids])
                      /\ pc' = "order"
                 ELSE /\ UNCHANGED orderReq
                      /\ pc' = "sshkeys"
              /\ UNCHANGED diagErrors
    /\ CreateUnchangedPoller
    /\ UNCHANGED <<scanned, catalog, cancelCalls>>
    /\ UNCHANGED <<inventory, ret, sku, os, orderCalls, orderResp, alternatives,
                   serviceID, nameCalls, diagWarnings, state>>

\* one iteration of the label loop: GetSSHKeyByLabel(label)
CreateLookupSSHKey ==
    /\ op = "Create" /\ pc = "sshkeys"
    /\ \E res \in SSHKeysResults :
          LET label == plan.SSHKeyLabels.elems[keyIdx + 1]
              r == GetSSHKeyByLabel(res, label)
              ids == Append(sshKeyIDs, Get(r.key).ID)
          IN  IF r.err # ""
              THEN /\ diagErrors' = diagErrors \cup {Diag("SSH Key Not Found", r.err)}
                   /\ pc' = "done"
                   /\ UNCHANGED <<keyIdx, sshKeyIDs, orderReq>>
              ELSE /\ sshKeyIDs' = ids
                   /\ keyIdx' = keyIdx + 1
                   /\ IF keyIdx + 1 = Len(plan.SSHKeyLabels.elems)
                      THEN /\ orderReq' = Some([Get(orderReq) EXCEPT !.SSHKeyIDs = ids])
                           /\ pc' = "order"
                      ELSE /\ UNCHANGED orderReq
                           /\ pc' = "sshkeys"
                   /\ UNCHANGED diagErrors
    /\ CreateUnchangedPoller
    /\ UNCHANGED <<scanned, catalog, cancelCalls>>
    /\ UNCHANGED <<inventory, ret, sku, os, orderCalls, orderResp, alternatives,
                   serviceID, nameCalls, diagWarnings, state>>

\* the order POST leaves: r.client.OrderServer(orderReq)
CreateOrderServer ==
    /\ op = "Create" /\ pc = "order"
    /\ orderCalls' = orderCalls + 1
    /\ pc' = "ordering"
    /\ CreateUnchangedPoller
    /\ UNCHANGED <<scanned, catalog, cancelCalls>>
    /\ UNCHANGED <<inventory, ret, sku, os, keyIdx, sshKeyIDs, orderReq,
                   orderResp, alternatives, serviceID, nameCalls, diagErrors,
                   diagWarnings, state>>

\* CreateOrderAnswer submitting the order again on an empty identifier list
CreateOrderAnswerRetryEmpty ==
    /\ op = "Create" /\ pc = "ordering"
    /\ \E r \in OrderResults :
          IF r.err = "Client.Timeout exceeded"
          THEN /\ diagErrors' = diagErrors \cup {Diag("Server Order Timeout", r.err)}
               /\ pc' = "done"
               /\ UNCHANGED orderResp
          ELSE IF r.err # ""
          THEN /\ diagErrors' = diagErrors \cup {Diag("Server Order Failed", r.err)}
               /\ pc' = "done"
               /\ UNCHANGED orderResp
          ELSE IF Len(r.OrderServiceIDs) = 0
          THEN /\ orderResp' = Some(r)
               /\ pc' = "order"
               /\ UNCHANGED diagErrors
          ELSE /\ orderResp' = Some(r)
               /\ pc' = "ordered"
               /\ UNCHANGED diagErrors
    /\ CreateUnchangedPoller
    /\ UNCHANGED <<scanned, catalog, cancelCalls>>
    /\ UNCHANGED <<inventory, ret, sku, os, keyIdx, sshKeyIDs, orderReq,
                   orderCalls, alternatives, serviceID, nameCalls, diagWarnings,
                   state>>

\* the answer to the order POST, and the checks on it
CreateOrderAnswer ==
    /\ op = "Create" /\ pc = "ordering"
    /\ \E r \in OrderResults :
          IF r.err = "Client.Timeout exceeded"
          THEN /\ diagErrors' = diagErrors \cup {Diag("Server Order Timeout", r.err)}
               /\ pc' = "done"
               /\ UNCHANGED orderResp
          ELSE IF r.err # ""
          THEN /\ diagErrors' = diagErrors \cup {Diag("Server Order Failed", r.err)}
               /\ pc' = "done"
               /\ UNCHANGED orderResp
          ELSE IF Len(r.OrderServiceIDs) = 0
          THEN /\ diagErrors' = diagErrors \cup
                     {Diag("Server Order Failed", "No service IDs returned from server order")}
               /\ orderResp' = Some(r)
               /\ pc' = "done"
          ELSE /\ orderResp' = Some(r)
               /\ pc' = "ordered"
               /\ UNCHANGED diagErrors
    /\ CreateUnchangedPoller
    /\ UNCHANGED <<scanned, catalog, cancelCalls>>
    /\ UNCHANGED <<inventory, ret, sku, os, keyIdx, sshKeyIDs, orderReq,
                   orderCalls, alternatives, serviceID, nameCalls, diagWarnings,
                   state>>

\* CreateStartWait polling for the last identifier of the response
CreateStartWaitLastID ==
    /\ op = "Create" /\ pc = "ordered"
    /\ serviceID' = Get(orderResp).OrderServiceIDs[Len(Get(orderResp).OrderServiceIDs)]
    /\ pc' = "enter"
    /\ sku' = None /\ os' = None /\ keyIdx' = 0 /\ sshKeyIDs' = <<>>
    /\ orderReq' = None /\ orderResp' = None /\ ret' = NoRet
    /\ CreateUnchangedPoller
    /\ UNCHANGED <<scanned, catalog, cancelCalls>>
    /\ UNCHANGED <<inventory, orderCalls, alternatives, nameCalls, diagErrors,
                   diagWarnings, state>>

\* serviceID := orderResp.OrderServiceIDs[0]; call waitForServerProvisioning.
\* The locals of the ordering phase are dead from here on.
CreateStartWait ==
    /\ op = "Create" /\ pc = "ordered"
    /\ serviceID' = Get(orderResp).OrderServiceIDs[1]
    /\ pc' = "enter"
    /\ sku' = None /\ os' = None /\ keyIdx' = 0 /\ sshKeyIDs' = <<>>
    /\ orderReq' = None /\ orderResp' = None /\ ret' = NoRet
    /\ CreateUnchangedPoller
    /\ UNCHANGED <<scanned, catalog, cancelCalls>>
    /\ UNCHANGED <<inventory, orderCalls, alternatives, nameCalls, diagErrors,
                   diagWarnings, state>>

\* CreateAfterWait cancelling the ordered server when the wait failed
CreateAfterWaitCancelOnTimeout ==
    /\ op = "Create" /\ pc = "returned"
    /\ IF pollRet.err # ""
       THEN /\ diagErrors' = diagErrors \cup
                  {[summary |-> "Server Provisioning Timeout",
                    detail |-> pollRet.err, serviceID |-> serviceID]}
            /\ UNCHANGED <<nameCalls, diagWarnings, state>>
            /\ cancelCalls' = Append(cancelCalls, "the ordered server")
       ELSE LET server == Get(pollRet.server) IN
            /\ \E nameOK \in BOOLEAN :
                  IF plan.FriendlyName # NullString
                  THEN /\ nameCalls' = Append(nameCalls, <<server.ID, plan.FriendlyName>>)
                       /\ diagWarnings' =
                             IF nameOK THEN diagWarnings
                             ELSE diagWarnings \cup
                                    {Diag("Friendly Name Update Failed",
                                          "failed to update server friendly name")}
                  ELSE UNCHANGED <<nameCalls, diagWarnings>>
            /\ state' = Some(updateModelFromServer(ModelOfPlan(plan), server))
            /\ UNCHANGED <<diagErrors, cancelCalls>>
    /\ pc' = "done"
    /\ CreateUnchangedPoller
    /\ UNCHANGED <<scanned, catalog>>
    /\ UNCHANGED <<inventory, ret, sku, os, keyIdx, sshKeyIDs, orderReq,
                   orderCalls, orderResp, alternatives, serviceID>>

\* CreateAfterWait treating a failed friendly-name update as an error
CreateAfterWaitNameFailureFatal ==
    /\ op = "Create" /\ pc = "returned"
    /\ IF pollRet.err # ""
       THEN /\ diagErrors' = diagErrors \cup
                  {[summary |-> "Server Provisioning Timeout",
                    detail |-> pollRet.err, serviceID |-> serviceID]}
            /\ UNCHANGED <<nameCalls, diagWarnings, state>>
       ELSE LET server == Get(pollRet.server) IN
            /\ \E nameOK \in BOOLEAN :
                  IF plan.FriendlyName # NullString
                  THEN /\ nameCalls' = Append(nameCalls, <<server.ID, plan.FriendlyName>>)
                       /\ diagWarnings' =
                             IF nameOK THEN diagWarnings
                             ELSE diagWarnings \cup
                                    {Diag("Friendly Name Update Failed",
                                          "failed to update server friendly name")}
                  ELSE UNCHANGED <<nameCalls, diagWarnings>>
            /\ IF \E w \in diagWarnings' : w.summary = "Friendly Name Update Failed"
               THEN /\ diagErrors' = diagErrors \cup
                          {Diag("Friendly Name Update Failed",
                                "failed to update server friendly name")}
                    /\ UNCHANGED state
               ELSE /\ state' = Some(updateModelFromServer(ModelOfPlan(plan), server))
                    /\ UNCHANGED diagErrors
    /\ pc' = "done"
    /\ UNCHANGED cancelCalls
    /\ CreateUnchangedPoller
    /\ UNCHANGED <<scanned, catalog>>
    /\ UNCHANGED <<inventory, ret, sku, os, keyIdx, sshKeyIDs, orderReq,
                   orderCalls, orderResp, alternatives, serviceID>>

\* CreateAfterWait addressing the friendly-name call by the planned hostname
CreateAfterWaitNameByHostname ==
    /\ op = "Create" /\ pc = "returned"
    /\ IF pollRet.err # ""
       THEN /\ diagErrors' = diagErrors \cup
                  {[summary |-> "Server Provisioning Timeout",
                    detail |-> pollRet.err, serviceID |-> serviceID]}
            /\ UNCHANGED <<nameCalls, diagWarnings, state>>
       ELSE LET server == Get(pollRet.server) IN
            /\ \E nameOK \in BOOLEAN :
                  IF plan.FriendlyName # NullString
                  THEN /\ nameCalls' = Append(nameCalls, <<plan.Hostname, plan.FriendlyName>>)
                       /\ diagWarnings' =
                             IF nameOK THEN diagWarnings
                             ELSE diagWarnings \cup
                                    {Diag("Friendly Name Update Failed",
                                          "failed to update server friendly name")}
                  ELSE UNCHANGED <<nameCalls, diagWarnings>>
            /\ state' = Some(updateModelFromServer(ModelOfPlan(plan), server))
            /\ UNCHANGED diagErrors
    /\ pc' = "done"
    /\ UNCHANGED cancelCalls
    /\ CreateUnchangedPoller
    /\ UNCHANGED <<scanned, catalog>>
    /\ UNCHANGED <<inventory, ret, sku, os, keyIdx, sshKeyIDs, orderReq,
                   orderCalls, orderResp, alternatives, serviceID>>

\* CreateAfterWait saving the pending order when the wait failed
CreateAfterWaitSavePending ==
    /\ op = "Create" /\ pc = "returned"
    /\ IF pollRet.err # ""
       THEN /\ diagErrors' = diagErrors \cup
                  {[summary |-> "Server Provisioning Timeout",
                    detail |-> pollRet.err, serviceID |-> serviceID]}
            /\ UNCHANGED <<nameCalls, diagWarnings>>
            /\ state' = Some([ModelOfPlan(plan) EXCEPT !.ServiceID = serviceID])
       ELSE LET server == Get(pollRet.server) IN
            /\ \E nameOK \in BOOLEAN :
                  IF plan.FriendlyName # NullString
                  THEN /\ nameCalls' = Append(nameCalls, <<server.ID, plan.FriendlyName>>)
                       /\ diagWarnings' =
                             IF nameOK THEN diagWarnings
                             ELSE diagWarnings \cup
                                    {Diag("Friendly Name Update Failed",
                                          "failed to update server friendly name")}
                  ELSE UNCHANGED <<nameCalls, diagWarnings>>
            /\ state' = Some(updateModelFromServer(ModelOfPlan(plan), server))
            /\ UNCHANGED diagErrors
    /\ pc' = "done"
    /\ UNCHANGED cancelCalls
    /\ CreateUnchangedPoller
    /\ UNCHANGED <<scanned, catalog>>
    /\ UNCHANGED <<inventory, ret, sku, os, keyIdx, sshKeyIDs, orderReq,
                   orderCalls, orderResp, alternatives, serviceID>>

\* after the wait: timeout diagnostic, or friendly name, model and state
CreateAfterWait ==
    /\ op = "Create" /\ pc = "returned"
    /\ IF pollRet.err # ""
       THEN /\ diagErrors' = diagErrors \cup
                  {[summary |-> "Server Provisioning Timeout",
                    detail |-> pollRet.err, serviceID |-> serviceID]}
            /\ UNCHANGED <<nameCalls, diagWarnings, state>>
       ELSE LET server == Get(pollRet.server) IN
            /\ \E nameOK \in BOOLEAN :
                  IF plan.FriendlyName # NullString
                  THEN /\ nameCalls' = Append(nameCalls, <<server.ID, plan.FriendlyName>>)
                       /\ diagWarnings' =
                             IF nameOK THEN diagWarnings
                             ELSE diagWarnings \cup
                                    {Diag("Friendly Name Update Failed",
                                          "failed to update server friendly name")}
                  ELSE UNCHANGED <<nameCalls, diagWarnings>>
            /\ state' = Some(updateModelFromServer(ModelOfPlan(plan), server))
            /\ UNCHANGED diagErrors
    /\ pc' = "done"
    /\ UNCHANGED cancelCalls
    /\ CreateUnchangedPoller
    /\ UNCHANGED <<scanned, catalog>>
    /\ UNCHANGED <<inventory, ret, sku, os, keyIdx, sshKeyIDs, orderReq,
                   orderCalls, orderResp, alternatives, serviceID>>

----------------------------------------------------------------------------
(* waitForServerProvisioning *)

PollerUnchangedCreate ==
    UNCHANGED <<op, plan, request, inventory, ret, sku, os, keyIdx, sshKeyIDs,
                orderReq, orderCalls, orderResp, alternatives, serviceID,
                timeout, nameCalls, diagErrors, diagWarnings, state,
                scanned, catalog, cancelCalls, prior, lastKeys, keyCalls,
                backendKeys, importID,
          callErr>>

\* deadline := time.Now().Add(timeout)
PollEnter ==
    /\ pc = "enter"
    /\ deadline' = now + timeout
    /\ pc' = "loop"
    /\ PollerUnchangedCreate
    /\ UNCHANGED <<now, cancelled, queries, slowQueries, lastKind, sawError,
                   lastPoll, pollRet>>

\* PollLoop testing ctx.Done() before the first query only
PollLoopFirstOnly ==
    /\ pc = "loop"
    /\ IF ~(now < deadline)
       THEN /\ pollRet' = [server |-> None,
                           err |-> "timeout waiting for server to be provisioned",
                           serviceID |-> serviceID]
            /\ pc' = "returned"
            /\ UNCHANGED queries
       ELSE IF cancelled /\ queries = 0
       THEN /\ pollRet' = [server |-> None, err |-> "context canceled",
                           serviceID |-> NullInt]
            /\ pc' = "returned"
            /\ UNCHANGED queries
       ELSE /\ queries' = queries + 1
            /\ pc' = "query"
            /\ UNCHANGED pollRet
    /\ PollerUnchangedCreate
    /\ UNCHANGED <<now, deadline, cancelled, slowQueries, lastKind, sawError, lastPoll>>

\* PollLoop still querying at the deadline itself
PollLoopInclusive ==
    /\ pc = "loop"
    /\ IF ~(now <= deadline)
       THEN /\ pollRet' = [server |-> None,
                           err |-> "timeout waiting for server to be provisioned",
                           serviceID |-> serviceID]
            /\ pc' = "returned"
            /\ UNCHANGED queries
       ELSE IF cancelled
       THEN /\ pollRet' = [server |-> None, err |-> "context canceled",
                           serviceID |-> NullInt]
            /\ pc' = "returned"
            /\ UNCHANGED queries
       ELSE /\ queries' = queries + 1
            /\ pc' = "query"
            /\ UNCHANGED pollRet
    /\ PollerUnchangedCreate
    /\ UNCHANGED <<now, deadline, cancelled, slowQueries, lastKind, sawError, lastPoll>>

\* the loop head: deadline test, ctx.Done() test, then the query leaves
PollLoop ==
    /\ pc = "loop"
    /\ IF ~(now < deadline)
       THEN /\ pollRet' = [server |-> None,
                           err |-> "timeout waiting for server to be provisioned",
                           serviceID |-> serviceID]
            /\ pc' = "returned"
            /\ UNCHANGED queries
       ELSE IF cancelled
       THEN /\ pollRet' = [server |-> None, err |-> "context canceled",
                           serviceID |-> NullInt]
            /\ pc' = "returned"
            /\ UNCHANGED queries
       ELSE /\ queries' = queries + 1
            /\ pc' = "query"
            /\ UNCHANGED pollRet
    /\ PollerUnchangedCreate
    /\ UNCHANGED <<now, deadline, cancelled, slowQueries, lastKind, sawError, lastPoll>>

\* PollAnswer giving up the wait on a transport error of the query
PollAnswerAbortOnError ==
    /\ pc = "query"
    /\ \E res \in ServersResults, slow \in BOOLEAN :
          LET r == GetServerByServiceID(res, serviceID) IN
          /\ slow => slowQueries < MaxSlowQueries
          /\ slowQueries' = IF slow THEN slowQueries + 1 ELSE slowQueries
          /\ now' = IF slow THEN now + HTTPClientTimeout ELSE now
          /\ lastPoll' = IF op = "Create" THEN None ELSE Some(res)
          /\ IF r.err = "" \/ res.err # ""
             THEN /\ pollRet' = [server |-> r.server, err |-> r.err,
                                 serviceID |-> NullInt]
                  /\ pc' = "returned"
                  /\ sawError' = (sawError \/ res.err # "")
                  /\ UNCHANGED lastKind
             ELSE /\ lastKind' = "notfound"
                  /\ pc' = "sleep"
                  /\ UNCHANGED <<pollRet, sawError>>
    /\ PollerUnchangedCreate
    /\ UNCHANGED <<deadline, cancelled, queries>>

\* the answer of GetServerByServiceID; the call took no time or ran into
\* the HTTP client timeout
PollAnswer ==
    /\ pc = "query"
    /\ \E res \in ServersResults, slow \in BOOLEAN :
          LET r == GetServerByServiceID(res, serviceID) IN
          /\ slow => slowQueries < MaxSlowQueries
          /\ slowQueries' = IF slow THEN slowQueries + 1 ELSE slowQueries
          /\ now' = IF slow THEN now + HTTPClientTimeout ELSE now
          /\ lastPoll' = IF op = "Create" THEN None ELSE Some(res)
          /\ IF r.err = ""
             THEN /\ pollRet' = [server |-> r.server, err |-> "",
                                 serviceID |-> NullInt]
                  /\ pc' = "returned"
                  /\ UNCHANGED <<lastKind, sawError>>
             ELSE /\ lastKind' = IF res.err # "" THEN "error" ELSE "notfound"
                  /\ sawError' = (sawError \/ res.err # "")
                  /\ pc' = "sleep"
                  /\ UNCHANGED pollRet
    /\ PollerUnchangedCreate
    /\ UNCHANGED <<deadline, cancelled, queries>>

\* PollSleep waking after half the interval
PollSleepHalf ==
    /\ pc = "sleep"
    /\ now' = now + SleepInterval \div 2
    /\ lastKind' = ""
    /\ lastPoll' = None
    /\ pc' = "loop"
    /\ PollerUnchangedCreate
    /\ UNCHANGED <<deadline, cancelled, queries, slowQueries, sawError, pollRet>>

\* time.Sleep(30 * time.Second)
PollSleep ==
    /\ pc = "sleep"
    /\ now' = now + SleepInterval
    /\ lastKind' = ""
    /\ lastPoll' = None
    /\ pc' = "loop"
    /\ PollerUnchangedCreate
    /\ UNCHANGED <<deadline, cancelled, queries, slowQueries, sawError, pollRet>>

\* the host cancels the context of the running operation
Cancel ==
    /\ Running
    /\ ~cancelled
    /\ cancelled' = TRUE
    /\ PollerUnchangedCreate
    /\ UNCHANGED <<pc, now, deadline, queries, slowQueries, lastKind, sawError,
                   lastPoll, pollRet>>

----------------------------------------------------------------------------
(* specifications *)

Next ==
    \/ CreateFindSKU \/ CreateSuggest \/ CreateGetAddons \/ CreateLookupSSHKey
    \/ CreateOrderServer \/ CreateOrderAnswer \/ CreateStartWait
    \/ PollEnter \/ PollLoop \/ PollAnswer \/ PollSleep
    \/ CreateAfterWait \/ Cancel

Spec == Init /\ [][Next]_vars

NextPoller == PollEnter \/ PollLoop \/ PollAnswer \/ PollSleep \/ Cancel

SpecPoller == InitPoller /\ [][NextPoller]_vars

\* the poller is straight-line code of one goroutine: the clock read, the
\* HTTP call (bounded by the client timeout) and time.Sleep all return, so a
\* poller step that stays enabled is eventually taken; the host need never
\* cancel
PollerStep == PollEnter \/ PollLoop \/ PollAnswer \/ PollSleep

SpecPollerFair == InitPoller /\ [][NextPoller]_vars /\ WF_vars(PollerStep)

----------------------------------------------------------------------------
(* Read, Update and Delete of a server; Read of an SSH key *)

\* the inputs of the plans whose Create or Read saved the prior states
StateInputs ==
    [InstanceType : {"c1.small"}, Location : {"NYC1"},
     OperatingSystem : {"Ubuntu 24.04"}, Hostname : {NullString, "web1"},
     FriendlyName : {NullString, "old"},
     SSHKeyLabels : {[null |-> TRUE, elems |-> <<>>],
                     [null |-> FALSE, elems |-> <<"laptop">>]}]

\* server states an earlier Create or Read has saved
PriorServerStates ==
    {updateModelFromServer(ModelOfPlan(p), s) : p \in StateInputs, s \in Servers}

\* SSHKeyResourceModel values an earlier Create or Read has saved
PriorSSHKeyStates ==
    [ID : {11, 13}, Label : Labels,
     PublicKey : {"ssh-ed25519 AAAA", "ssh-rsa BBBB"},
     CreatedAt : {1600000000}, UpdatedAt : {1600000000}]

updateModelFromSSHKey(data, sshKey) ==
    [data EXCEPT
        !.ID = sshKey.ID,
        !.Label = sshKey.Label,
        !.PublicKey = sshKey.Key,
        !.CreatedAt = sshKey.CreatedAt,
        !.UpdatedAt = sshKey.UpdatedAt]

\* the inputs of the plans Update is run on
UpdateInputs ==
    [InstanceType : InstanceTypes, Location : LocationCodes,
     OperatingSystem : {"Ubuntu 24.04", "Debian 12"},
     Hostname : {NullString, "web1"},
     FriendlyName : {NullString, "web", "old"}, SSHKeyLabels : LabelLists]

\* req.Plan of an Update on the state st: the planned inputs, id and
\* service_id kept from the state (UseStateForUnknown), the rest unknown
PlanOfUpdate(p, st) ==
    [ModelOfPlan(p) EXCEPT !.ID = st.ID, !.ServiceID = st.ServiceID]

\* everything a Read, Update or Delete does not touch
LifecycleUntouched ==
    /\ inventory = None /\ ret = NoRet /\ sku = None /\ os = None
    /\ keyIdx = 0 /\ sshKeyIDs = <<>> /\ orderReq = None /\ orderCalls = 0
    /\ orderResp = None /\ alternatives = NoAlternatives
    /\ now = 0 /\ deadline = 0 /\ cancelled = FALSE
    /\ queries = 0 /\ slowQueries = 0 /\ lastKind = "" /\ sawError = FALSE
    /\ pollRet = NoPollRet /\ scanned = None /\ catalog = None
    /\ request = NoRequest /\ serviceID = NullInt /\ timeout = 0

\* the inputs of an SSH key plan
SSHKeyInputs == [Label : Labels, PublicKey : {"ssh-ed25519 AAAA", "ssh-rsa BBBB"}]

\* the SSHKeyResourceModel decoded from the plan of a Create: computed
\* attributes unknown
SSHKeyModelOfPlan(p) ==
    [ID |-> NullInt, Label |-> p.Label, PublicKey |-> p.PublicKey,
     CreatedAt |-> NullInt, UpdatedAt |-> NullInt]

\* req.Plan of an SSH key Update on the state st: id kept from the state
\* (UseStateForUnknown), the timestamps unknown
SSHKeyPlanOfUpdate(p, st) == [SSHKeyModelOfPlan(p) EXCEPT !.ID = st.ID]

\* var data BareMetalServerResourceModel, as ImportState starts from
ZeroServerModel ==
    ModelOfPlan([InstanceType |-> NullString, Location |-> NullString,
                 OperatingSystem |-> NullString, Hostname |-> NullString,
                 FriendlyName |-> NullString,
                 SSHKeyLabels |-> [null |-> TRUE, elems |-> <<>>]])

\* var data SSHKeyResourceModel, as ImportState starts from
ZeroSSHKeyModel ==
    [ID |-> NullInt, Label |-> NullString, PublicKey |-> NullString,
     CreatedAt |-> NullInt, UpdatedAt |-> NullInt]

\* import ids given for a server, character by character
ServerImportIDs ==
    {<<"5", "0", "0">>, <<"5", "0", "1">>, <<"5", "0", "2">>, <<"+", "5", "0", "1">>,
     <<"-", "5">>, <<"0", "5", "0", "0">>, <<>>, <<"-">>, <<"s", "r", "v">>,
     <<"5", "0", "0", "x">>, <<"5", " ", "0">>}

\* import ids given for an SSH key
SSHKeyImportIDs == Labels \cup {"11", ""}

ServerOps == {"Read", "Update", "Delete"}
SSHKeyStateOps == {"SSHKeyRead", "SSHKeyUpdate", "SSHKeyDelete"}

\* a handler other than the server Create about to run: resp.State starts as
\* the prior state (none for Create and ImportState)
InitLifecycle ==
    /\ op \in ServerOps \cup SSHKeyStateOps \cup
              {"SSHKeyCreate", "Import", "SSHKeyImport"}
    /\ pc = "start"
    /\ prior \in IF op \in SSHKeyStateOps
                 THEN {Some(k) : k \in PriorSSHKeyStates}
                 ELSE IF op \in ServerOps
                 THEN {Some(st) : st \in PriorServerStates}
                 ELSE {None}
    /\ plan \in IF op = "Update"
                THEN {PlanOfUpdate(p, Get(prior)) : p \in UpdateInputs}
                ELSE IF op = "SSHKeyUpdate"
                THEN {SSHKeyPlanOfUpdate(p, Get(prior)) : p \in SSHKeyInputs}
                ELSE IF op = "SSHKeyCreate"
                THEN {SSHKeyModelOfPlan(p) : p \in SSHKeyInputs}
                ELSE {None}
    /\ backendKeys \in IF op = "SSHKeyCreate"
                       THEN SeqsUpTo(SSHKeys, MaxKeys) ELSE {<<>>}
    /\ importID \in IF op = "Import"
                    THEN {Some(id) : id \in ServerImportIDs}
                    ELSE IF op = "SSHKeyImport"
                    THEN {Some(id) : id \in SSHKeyImportIDs}
                    ELSE {None}
    /\ state = prior
    /\ lastPoll = None /\ lastKeys = None /\ keyCalls = <<>>
    /\ nameCalls = <<>> /\ cancelCalls = <<>> /\ callErr = ""
    /\ diagErrors = {} /\ diagWarnings = {}
    /\ LifecycleUntouched

DeleteUnchanged ==
    UNCHANGED <<op, plan, request, inventory, ret, sku, os, keyIdx, sshKeyIDs,
                orderReq, orderCalls, orderResp, alternatives, serviceID,
                timeout, now, deadline, cancelled, queries, slowQueries,
                lastKind, sawError, pollRet, scanned, catalog, prior,
                importID>>

LifecycleUnchanged == DeleteUnchanged /\ UNCHANGED callErr

\* BareMetalServerResource.Read dropping the resource it cannot fetch
ServerReadRemoveMissing ==
    /\ op = "Read" /\ pc = "start"
    /\ \E res \in ServersResults :
          LET data == Get(prior)
              r == GetServerByServiceID(res, data.ServiceID) IN
          /\ lastPoll' = Some(res)
          /\ IF r.err # ""
             THEN /\ diagErrors' = diagErrors \cup {Diag("Client Error", r.err)}
                  /\ state' = None
             ELSE /\ state' = Some(updateModelFromServer(data, Get(r.server)))
                  /\ UNCHANGED diagErrors
    /\ pc' = "done"
    /\ LifecycleUnchanged
    /\ UNCHANGED <<lastKeys, nameCalls, cancelCalls, diagWarnings, keyCalls,
                   backendKeys>>

\* BareMetalServerResource.Read
ServerRead ==
    /\ op = "Read" /\ pc = "start"
    /\ \E res \in ServersResults :
          LET data == Get(prior)
              r == GetServerByServiceID(res, data.ServiceID) IN
          /\ lastPoll' = Some(res)
          /\ IF r.err # ""
             THEN /\ diagErrors' = diagErrors \cup {Diag("Client Error", r.err)}
                  /\ UNCHANGED state
             ELSE /\ state' = Some(updateModelFromServer(data, Get(r.server)))
                  /\ UNCHANGED diagErrors
    /\ pc' = "done"
    /\ LifecycleUnchanged
    /\ UNCHANGED <<lastKeys, nameCalls, cancelCalls, diagWarnings, keyCalls,
                   backendKeys>>

\* SSHKeyResource.Read
SSHKeyRead ==
    /\ op = "SSHKeyRead" /\ pc = "start"
    /\ \E res \in SSHKeysResults :
          LET data == Get(prior)
              r == GetSSHKeyByLabel(res, data.Label) IN
          /\ lastKeys' = Some(res)
          /\ keyCalls' = Append(keyCalls, <<"GetSSHKeys">>)
          /\ IF r.err # ""
             THEN /\ diagErrors' = diagErrors \cup {Diag("Client Error", r.err)}
                  /\ UNCHANGED state
             ELSE /\ state' = Some(updateModelFromSSHKey(data, Get(r.key)))
                  /\ UNCHANGED diagErrors
    /\ pc' = "done"
    /\ LifecycleUnchanged
    /\ UNCHANGED <<lastPoll, nameCalls, cancelCalls, diagWarnings, backendKeys>>

\* the inputs other than friendly_name differ between plan and state
OtherInputsDiffer(p, st) ==
    \/ p.InstanceType # st.InstanceType
    \/ p.Location # st.Location
    \/ p.OperatingSystem # st.OperatingSystem
    \/ p.Hostname # st.Hostname
    \/ p.SSHKeyLabels # st.SSHKeyLabels

\* BareMetalServerResource.Update renaming also to a null friendly name
ServerUpdateRenameToNull ==
    /\ op = "Update" /\ pc = "start"
    /\ LET st == Get(prior)
           rename == plan.FriendlyName # st.FriendlyName IN
       \E nameOK \in BOOLEAN :
          /\ nameCalls' = IF rename
                          THEN Append(nameCalls, <<st.ID, plan.FriendlyName>>)
                          ELSE nameCalls
          /\ IF rename /\ ~nameOK
             THEN /\ diagErrors' = diagErrors \cup
                        {Diag("Friendly Name Update Failed",
                              "failed to update server friendly name")}
                  /\ UNCHANGED <<diagWarnings, state>>
             ELSE /\ diagWarnings' =
                        IF OtherInputsDiffer(plan, st)
                        THEN diagWarnings \cup
                               {Diag("Update Requires Replacement",
                                     "Changes require resource replacement")}
                        ELSE diagWarnings
                  /\ state' = Some(plan)
                  /\ UNCHANGED diagErrors
    /\ pc' = "done"
    /\ LifecycleUnchanged
    /\ UNCHANGED <<lastPoll, lastKeys, cancelCalls, keyCalls, backendKeys>>


\* BareMetalServerResource.Update taking a hostname change without a warning
ServerUpdateHostnameSilent ==
    /\ op = "Update" /\ pc = "start"
    /\ LET st == Get(prior)
           rename == /\ plan.FriendlyName # st.FriendlyName
                     /\ plan.FriendlyName # NullString IN
       \E nameOK \in BOOLEAN :
          /\ nameCalls' = IF rename
                          THEN Append(nameCalls, <<st.ID, plan.FriendlyName>>)
                          ELSE nameCalls
          /\ IF rename /\ ~nameOK
             THEN /\ diagErrors' = diagErrors \cup
                        {Diag("Friendly Name Update Failed",
                              "failed to update server friendly name")}
                  /\ UNCHANGED <<diagWarnings, state>>
             ELSE /\ diagWarnings' =
                        IF OtherInputsDiffer([plan EXCEPT !.Hostname = st.Hostname], st)
                        THEN diagWarnings \cup
                               {Diag("Update Requires Replacement",
                                     "Changes require resource replacement")}
                        ELSE diagWarnings
                  /\ state' = Some(plan)
                  /\ UNCHANGED diagErrors
    /\ pc' = "done"
    /\ LifecycleUnchanged
    /\ UNCHANGED <<lastPoll, lastKeys, cancelCalls, keyCalls, backendKeys>>
\* ServerUpdate saving only what it changed in place
ServerUpdateKeepReplaced ==
    /\ op = "Update" /\ pc = "start"
    /\ LET st == Get(prior)
           rename == /\ plan.FriendlyName # st.FriendlyName
                     /\ plan.FriendlyName # NullString IN
       \E nameOK \in BOOLEAN :
          /\ nameCalls' = IF rename
                          THEN Append(nameCalls, <<st.ID, plan.FriendlyName>>)
                          ELSE nameCalls
          /\ IF rename /\ ~nameOK
             THEN /\ diagErrors' = diagErrors \cup
                        {Diag("Friendly Name Update Failed",
                              "failed to update server friendly name")}
                  /\ UNCHANGED <<diagWarnings, state>>
             ELSE /\ diagWarnings' =
                        IF OtherInputsDiffer(plan, st)
                        THEN diagWarnings \cup
                               {Diag("Update Requires Replacement",
                                     "Changes require resource replacement")}
                        ELSE diagWarnings
                  /\ state' = Some([plan EXCEPT
                                    !.InstanceType = st.InstanceType,
                                    !.Location = st.Location,
                                    !.OperatingSystem = st.OperatingSystem,
                                    !.Hostname = st.Hostname,
                                    !.SSHKeyLabels = st.SSHKeyLabels])
                  /\ UNCHANGED diagErrors
    /\ pc' = "done"
    /\ LifecycleUnchanged
    /\ UNCHANGED <<lastPoll, lastKeys, cancelCalls, keyCalls, backendKeys>>

\* BareMetalServerResource.Update
ServerUpdate ==
    /\ op = "Update" /\ pc = "start"
    /\ LET st == Get(prior)
           rename == /\ plan.FriendlyName # st.FriendlyName
                     /\ plan.FriendlyName # NullString IN
       \E nameOK \in BOOLEAN :
          /\ nameCalls' = IF rename
                          THEN Append(nameCalls, <<st.ID, plan.FriendlyName>>)
                          ELSE nameCalls
          /\ IF rename /\ ~nameOK
             THEN /\ diagErrors' = diagErrors \cup
                        {Diag("Friendly Name Update Failed",
                              "failed to update server friendly name")}
                  /\ UNCHANGED <<diagWarnings, state>>
             ELSE /\ diagWarnings' =
                        IF OtherInputsDiffer(plan, st)
                        THEN diagWarnings \cup
                               {Diag("Update Requires Replacement",
                                     "Changes require resource replacement")}
                        ELSE diagWarnings
                  /\ state' = Some(plan)
                  /\ UNCHANGED diagErrors
    /\ pc' = "done"
    /\ LifecycleUnchanged
    /\ UNCHANGED <<lastPoll, lastKeys, cancelCalls, keyCalls, backendKeys>>

\* BareMetalServerResource.Delete: CancelServer(state.ID); the framework
\* drops the state of a Delete that reported no error
ServerDelete ==
    /\ op = "Delete" /\ pc = "start"
    /\ cancelCalls' = Append(cancelCalls, Get(prior).ID)
    /\ \E ok \in BOOLEAN :
          IF ok
          THEN /\ callErr' = ""
               /\ state' = None
               /\ UNCHANGED diagErrors
          ELSE /\ callErr' = "failed to cancel server"
               /\ diagErrors' = diagErrors \cup
                     {Diag("Client Error", "failed to cancel server")}
               /\ UNCHANGED state
    /\ pc' = "done"
    /\ DeleteUnchanged
    /\ UNCHANGED <<lastPoll, lastKeys, nameCalls, diagWarnings, keyCalls,
                   backendKeys>>

\* the entry the backend lists for a credential it has just created
CreatedSSHKey(label, publicKey) ==
    [ID |-> 13, Label |-> label, Key |-> publicKey,
     CreatedAt |-> 1700000000, UpdatedAt |-> 1700000000]

\* SSHKeyResource.Create, the CreateSSHKey call: the backend refuses, or
\* accepts and appends the credential to its list (which may not show it yet)
SSHKeyCreateCall ==
    /\ op = "SSHKeyCreate" /\ pc = "start"
    /\ keyCalls' = Append(keyCalls, <<"CreateSSHKey", plan.Label, plan.PublicKey>>)
    /\ \E ok \in BOOLEAN, listed \in BOOLEAN :
          IF ~ok
          THEN /\ ~listed
               /\ diagErrors' = diagErrors \cup
                     {Diag("SSH Key Creation Failed", "failed to create SSH key")}
               /\ pc' = "done"
               /\ UNCHANGED backendKeys
          ELSE /\ backendKeys' =
                     IF listed
                     THEN Append(backendKeys, CreatedSSHKey(plan.Label, plan.PublicKey))
                     ELSE backendKeys
               /\ pc' = "lookup"
               /\ UNCHANGED diagErrors
    /\ LifecycleUnchanged
    /\ UNCHANGED <<lastPoll, lastKeys, nameCalls, cancelCalls, diagWarnings, state>>

\* SSHKeyResource.Create saving the plan when the lookup fails
SSHKeyCreateLookupKeepPlan ==
    /\ op = "SSHKeyCreate" /\ pc = "lookup"
    /\ keyCalls' = Append(keyCalls, <<"GetSSHKeys">>)
    /\ \E fetched \in BOOLEAN :
          LET res == IF fetched THEN [err |-> "", keys |-> backendKeys]
                     ELSE [err |-> "failed to get SSH keys", keys |-> <<>>]
              r == GetSSHKeyByLabel(res, plan.Label) IN
          /\ lastKeys' = Some(res)
          /\ IF r.err # ""
             THEN /\ state' = Some(plan)
                  /\ UNCHANGED diagErrors
             ELSE /\ state' = Some(updateModelFromSSHKey(plan, Get(r.key)))
                  /\ UNCHANGED diagErrors
    /\ pc' = "done"
    /\ LifecycleUnchanged
    /\ UNCHANGED <<lastPoll, nameCalls, cancelCalls, diagWarnings, backendKeys>>

\* SSHKeyResource.Create, the GetSSHKeyByLabel call and the state
SSHKeyCreateLookup ==
    /\ op = "SSHKeyCreate" /\ pc = "lookup"
    /\ keyCalls' = Append(keyCalls, <<"GetSSHKeys">>)
    /\ \E fetched \in BOOLEAN :
          LET res == IF fetched THEN [err |-> "", keys |-> backendKeys]
                     ELSE [err |-> "failed to get SSH keys", keys |-> <<>>]
              r == GetSSHKeyByLabel(res, plan.Label) IN
          /\ lastKeys' = Some(res)
          /\ IF r.err # ""
             THEN /\ diagErrors' = diagErrors \cup
                        {Diag("SSH Key Retrieval Failed", r.err)}
                  /\ UNCHANGED state
             ELSE /\ state' = Some(updateModelFromSSHKey(plan, Get(r.key)))
                  /\ UNCHANGED diagErrors
    /\ pc' = "done"
    /\ LifecycleUnchanged
    /\ UNCHANGED <<lastPoll, nameCalls, cancelCalls, diagWarnings, backendKeys>>

\* SSHKeyResource.Update replacing the credential in place
SSHKeyUpdateInPlace ==
    /\ op = "SSHKeyUpdate" /\ pc = "start"
    /\ keyCalls' = keyCalls \o <<<<"DeleteSSHKey", Get(prior).ID>>,
                                 <<"CreateSSHKey", plan.Label, plan.PublicKey>>>>
    /\ diagWarnings' = diagWarnings \cup
          {Diag("Update Not Supported", "SSH key changes require replacement")}
    /\ state' = Some(plan)
    /\ pc' = "done"
    /\ LifecycleUnchanged
    /\ UNCHANGED <<lastPoll, lastKeys, nameCalls, cancelCalls, diagErrors,
                   backendKeys>>

\* SSHKeyResource.Update
SSHKeyUpdate ==
    /\ op = "SSHKeyUpdate" /\ pc = "start"
    /\ diagWarnings' = diagWarnings \cup
          {Diag("Update Not Supported", "SSH key changes require replacement")}
    /\ state' = Some(plan)
    /\ pc' = "done"
    /\ LifecycleUnchanged
    /\ UNCHANGED <<lastPoll, lastKeys, nameCalls, cancelCalls, diagErrors,
                   keyCalls, backendKeys>>

\* SSHKeyResource.Delete looking the credential up by label first
SSHKeyDeleteByLabel ==
    /\ op = "SSHKeyDelete" /\ pc = "start"
    /\ keyCalls' = keyCalls \o <<<<"GetSSHKeys">>, <<"DeleteSSHKey", Get(prior).ID>>>>
    /\ \E ok \in BOOLEAN :
          IF ok
          THEN /\ callErr' = ""
               /\ state' = None
               /\ UNCHANGED diagErrors
          ELSE /\ callErr' = "failed to delete SSH key"
               /\ diagErrors' = diagErrors \cup
                     {Diag("Client Error", "failed to delete SSH key")}
               /\ UNCHANGED state
    /\ pc' = "done"
    /\ DeleteUnchanged
    /\ UNCHANGED <<lastPoll, lastKeys, nameCalls, cancelCalls, diagWarnings,
                   backendKeys>>

\* SSHKeyResource.Delete: DeleteSSHKey(state.ID); the framework drops the
\* state of a Delete that reported no error
SSHKeyDelete ==
    /\ op = "SSHKeyDelete" /\ pc = "start"
    /\ keyCalls' = Append(keyCalls, <<"DeleteSSHKey", Get(prior).ID>>)
    /\ \E ok \in BOOLEAN :
          IF ok
          THEN /\ callErr' = ""
               /\ state' = None
               /\ UNCHANGED diagErrors
          ELSE /\ callErr' = "failed to delete SSH key"
               /\ diagErrors' = diagErrors \cup
                     {Diag("Client Error", "failed to delete SSH key")}
               /\ UNCHANGED state
    /\ pc' = "done"
    /\ DeleteUnchanged
    /\ UNCHANGED <<lastPoll, lastKeys, nameCalls, cancelCalls, diagWarnings,
                   backendKeys>>

\* strconv.Atoi on a string given character by character: an optional sign,
\* then one or more decimal digits
Digits == {"0", "1", "2", "3", "4", "5", "6", "7", "8", "9"}
DigitValue(c) ==
    CASE c = "0" -> 0 [] c = "1" -> 1 [] c = "2" -> 2 [] c = "3" -> 3
      [] c = "4" -> 4 [] c = "5" -> 5 [] c = "6" -> 6 [] c = "7" -> 7
      [] c = "8" -> 8 [] c = "9" -> 9
RECURSIVE DecimalValue(_)
DecimalValue(s) ==
    IF s = <<>> THEN 0
    ELSE 10 * DecimalValue(SubSeq(s, 1, Len(s) - 1)) + DigitValue(s[Len(s)])
Atoi(s) ==
    LET signed == s # <<>> /\ s[1] \in {"+", "-"}
        body == IF signed THEN Tail(s) ELSE s IN
    IF body = <<>> \/ \E i \in 1..Len(body) : body[i] \notin Digits
    THEN [value |-> 0, err |-> "invalid syntax"]
    ELSE [value |-> IF signed /\ s[1] = "-"
                    THEN 0 - DecimalValue(body) ELSE DecimalValue(body),
          err |-> ""]

\* BareMetalServerResource.ImportState reading an unparsable id as 0
ServerImportLenient ==
    /\ op = "Import" /\ pc = "start"
    /\ \E res \in ServersResults :
          LET r == GetServerByServiceID(res, Atoi(Get(importID)).value) IN
          /\ lastPoll' = Some(res)
          /\ IF r.err # ""
             THEN /\ diagErrors' = diagErrors \cup {Diag("Import Error", r.err)}
                  /\ UNCHANGED state
             ELSE /\ state' = Some(updateModelFromServer(ZeroServerModel,
                                                         Get(r.server)))
                  /\ UNCHANGED diagErrors
    /\ pc' = "done"
    /\ LifecycleUnchanged
    /\ UNCHANGED <<lastKeys, nameCalls, cancelCalls, diagWarnings, keyCalls,
                   backendKeys>>

\* BareMetalServerResource.ImportState
ServerImport ==
    /\ op = "Import" /\ pc = "start"
    /\ LET parsed == Atoi(Get(importID)) IN
       IF parsed.err # ""
       THEN /\ diagErrors' = diagErrors \cup
                  {Diag("Import Error", "Invalid service ID format")}
            /\ UNCHANGED <<lastPoll, state>>
       ELSE \E res \in ServersResults :
               LET r == GetServerByServiceID(res, parsed.value) IN
               /\ lastPoll' = Some(res)
               /\ IF r.err # ""
                  THEN /\ diagErrors' = diagErrors \cup {Diag("Import Error", r.err)}
                       /\ UNCHANGED state
                  ELSE /\ state' = Some(updateModelFromServer(ZeroServerModel,
                                                              Get(r.server)))
                       /\ UNCHANGED diagErrors
    /\ pc' = "done"
    /\ LifecycleUnchanged
    /\ UNCHANGED <<lastKeys, nameCalls, cancelCalls, diagWarnings, keyCalls,
                   backendKeys>>

\* SSHKeyResource.ImportState
SSHKeyImport ==
    /\ op = "SSHKeyImport" /\ pc = "start"
    /\ keyCalls' = Append(keyCalls, <<"GetSSHKeys">>)
    /\ \E res \in SSHKeysResults :
          LET r == GetSSHKeyByLabel(res, Get(importID)) IN
          /\ lastKeys' = Some(res)
          /\ IF r.err # ""
             THEN /\ diagErrors' = diagErrors \cup {Diag("Import Error", r.err)}
                  /\ UNCHANGED state
             ELSE /\ state' = Some(updateModelFromSSHKey(ZeroSSHKeyModel,
                                                         Get(r.key)))
                  /\ UNCHANGED diagErrors
    /\ pc' = "done"
    /\ LifecycleUnchanged
    /\ UNCHANGED <<lastPoll, nameCalls, cancelCalls, diagWarnings, backendKeys>>

NextLifecycle ==
    \/ ServerRead \/ SSHKeyRead \/ ServerUpdate \/ ServerDelete
    \/ SSHKeyCreateCall \/ SSHKeyCreateLookup \/ SSHKeyUpdate \/ SSHKeyDelete
    \/ ServerImport \/ SSHKeyImport

SpecLifecycle == InitLifecycle /\ [][NextLifecycle]_vars

----------------------------------------------------------------------------
(* Properties *)

\* an inventory entry that satisfies a request
Qualifies(item, productName, locationCode) ==
    /\ item.SkuProductName = productName
    /\ (locationCode = "" \/ item.LocationCode = locationCode)
    /\ item.AutoProvisionQuantity > 0

ResolveDone == op = "FindSKUByProductName" /\ pc = "done"

\* C1: FindSKUByProductName returns an item iff the inventory snapshot has an
\* entry with the requested product name, the requested location (or the
\* requested location is empty) and auto-provisionable quantity > 0; otherwise
\* it returns an error and no item.
C1_ResolveIff ==
    ResolveDone =>
        LET inv == Get(inventory) IN
        /\ IsSome(ret.item) <=> ret.err = ""
        /\ inv.err = "" =>
              (IsSome(ret.item) <=>
                 \E i \in 1..Len(inv.items) :
                    Qualifies(inv.items[i], request.productName, request.locationCode))
        /\ inv.err # "" => ret.item = None
        /\ IsSome(ret.item) =>
              Qualifies(Get(ret.item), request.productName, request.locationCode)

\* an item is returned from a snapshot whose first entry has the requested
\* name but no auto-provisionable quantity
C1_Witness ==
    /\ ResolveDone
    /\ IsSome(ret.item)
    /\ Get(inventory).err = ""
    /\ Len(Get(inventory).items) = 2
    /\ Get(inventory).items[1].SkuProductName = request.productName
    /\ Get(inventory).items[1].AutoProvisionQuantity = 0
    /\ request.locationCode # ""

ValidationSummaries ==
    {"Instance Type or Location Invalid",
     "Invalid Instance Type and Location Combination",
     "Unable to Retrieve Operating System Options",
     "Invalid Operating System",
     "SSH Key Not Found"}

ValidationFailed == \E d \in diagErrors : d.summary \in ValidationSummaries

OrderInFlight == op = "Create" /\ pc = "ordering"

\* C2: when Create issues the order POST, the type/location has been resolved
\* against inventory, the operating system against the addon catalog and
\* every supplied SSH key label to a credential identifier; when one of the
\* resolutions fails, Create ends with an error and no order call is issued.
C2_ResolvedBeforeOrder ==
    /\ orderCalls > 0 /\ OrderInFlight =>
          /\ IsSome(sku)
          /\ Qualifies(Get(sku), plan.InstanceType, plan.Location)
          /\ IsSome(os)
          /\ Get(os).Name = plan.OperatingSystem
          /\ Get(orderReq).OperatingSystemProductCode = Get(os).ProductCode
          /\ ~plan.SSHKeyLabels.null =>
                /\ Len(sshKeyIDs) = Len(plan.SSHKeyLabels.elems)
                /\ Get(orderReq).SSHKeyIDs = sshKeyIDs
    /\ ValidationFailed => pc = "done" /\ orderCalls = 0 /\ state = None

\* the second of two labels has no credential: Create failed without ordering
C2_Witness ==
    /\ op = "Create" /\ pc = "done"
    /\ Len(plan.SSHKeyLabels.elems) = 2
    /\ keyIdx = 1
    /\ \E d \in diagErrors :
          d.summary = "SSH Key Not Found" /\ d.detail = "SSH key with label not found"
    /\ orderCalls = 0

\* C3: one execution of Create issues the order call at most once, whatever
\* the backend answers, and the poll target is the first entry of the
\* returned service-identifier sequence and stays it.
C3_OrderOnceFirstID ==
    /\ [](orderCalls <= 1)
    /\ [][(op = "Create" /\ pc = "ordered" /\ pc' # "ordered") =>
             serviceID' = Get(orderResp).OrderServiceIDs[1]]_vars
    /\ [][(op = "Create" /\ serviceID # NullInt) => serviceID' = serviceID]_vars

\* the order was submitted once, the wait ran to the deadline and Create
\* ended with the timeout diagnostic
C3_Witness ==
    /\ op = "Create" /\ pc = "done"
    /\ orderCalls = 1
    /\ queries > 1
    /\ \E d \in diagErrors : d.summary = "Server Provisioning Timeout"

\* C4: every order request Create submits has quantity 1 and the hourly
\* billing flag set.
C4_QuantityOneHourly ==
    IsSome(orderReq) =>
        /\ Get(orderReq).Quantity = 1
        /\ Get(orderReq).BillHourly = TRUE

\* an order without hostname and with two SSH keys is in flight
C4_Witness ==
    /\ OrderInFlight
    /\ plan.Hostname = NullString
    /\ Len(Get(orderReq).SSHKeyIDs) = 2

\* the first entry of a server list with the target service identifier
FirstMatch(servers, id) ==
    LET hits == {i \in 1..Len(servers) : servers[i].ServiceID = id} IN
    servers[CHOOSE i \in hits : \A j \in hits : i <= j]

HasMatch(res, id) ==
    res.err = "" /\ \E i \in 1..Len(res.servers) : res.servers[i].ServiceID = id

\* C5: whatever the number of polls without a match before it, a poll whose
\* answer holds an entry with the target service identifier makes the poller
\* return that entry (the first such entry of the answer), never a timeout.
C5_MatchAfterNotFound ==
    (op = "waitForServerProvisioning" /\ IsSome(lastPoll)
        /\ HasMatch(Get(lastPoll), serviceID)) =>
        /\ pc = "returned"
        /\ pollRet.err = ""
        /\ pollRet.server = Some(FirstMatch(Get(lastPoll).servers, serviceID))

\* three polls without a match, then a poll with two matching entries
C5_Witness ==
    /\ op = "waitForServerProvisioning" /\ pc = "returned"
    /\ queries = 4 /\ ~sawError /\ ~cancelled
    /\ timeout = ProvisioningTimeout
    /\ IsSome(pollRet.server)
    /\ Len(Get(lastPoll).servers) = 2
    /\ Get(lastPoll).servers[1].ServiceID = Get(lastPoll).servers[2].ServiceID
    /\ Get(lastPoll).servers[1] # Get(lastPoll).servers[2]

\* C6: once the cancellation signal is raised, the poller issues no further
\* server-list query.
C6_NoQueryAfterCancel == [][cancelled => queries' = queries]_vars

\* cancelled between two polls: the poller returned the cancellation error
\* without another query
C6_Witness ==
    /\ op = "waitForServerProvisioning" /\ pc = "returned"
    /\ cancelled
    /\ queries = 2
    /\ pollRet.err = "context canceled"

\* C7: when the cancellation signal was raised before the poller returns
\* without a match, the poller returns the cancellation error, never the
\* timeout error.
C7_CancelBeatsTimeout ==
    [][(pc = "loop" /\ pc' = "returned" /\ cancelled) =>
          pollRet'.err = "context canceled"]_vars

\* C8: no server-list query is started at or after the deadline, and a
\* poller entered with the deadline already elapsed returns the timeout
\* error after at most one query.
C8_Deadline ==
    /\ [][queries' > queries => now < deadline]_vars
    /\ []((op = "waitForServerProvisioning" /\ timeout <= 0 /\ pc = "returned") =>
            /\ pollRet.err = "timeout waiting for server to be provisioned"
            /\ pollRet.server = None
            /\ queries <= 1)

\* entered with the deadline already elapsed: timeout error, no query
C8_Witness ==
    /\ op = "waitForServerProvisioning" /\ pc = "returned"
    /\ timeout = 0
    /\ queries = 0
    /\ pollRet.err = "timeout waiting for server to be provisioned"

\* C9: a transport error of a server-list query never ends the wait: the
\* poller sleeps and retries as after a not-found answer, and a later poll
\* that finds the target still returns the server.
C9_TransportErrorRetried ==
    /\ (op = "waitForServerProvisioning" /\ IsSome(lastPoll)
           /\ Get(lastPoll).err # "") =>
          /\ pc = "sleep"
          /\ lastKind = "error"
          /\ pollRet = NoPollRet
    /\ (pc = "returned" /\ pollRet.err # "") =>
          pollRet.err \in {"context canceled",
                           "timeout waiting for server to be provisioned"}
    /\ (op = "waitForServerProvisioning" /\ sawError /\ IsSome(lastPoll)
           /\ HasMatch(Get(lastPoll), serviceID)) =>
          pc = "returned" /\ IsSome(pollRet.server)

\* a poll failed in transport, a later poll found the server
C9_Witness ==
    /\ op = "waitForServerProvisioning" /\ pc = "returned"
    /\ sawError
    /\ queries = 3
    /\ IsSome(pollRet.server)
    /\ Get(pollRet.server).ServiceID = serviceID

\* C10: a successful order response with an empty service-identifier
\* sequence ends Create with a hard error: the order is not submitted again
\* and the poller is not started.
C10_EmptyIDsHardError ==
    (op = "Create" /\ IsSome(orderResp)
        /\ Len(Get(orderResp).OrderServiceIDs) = 0) =>
        /\ pc = "done"
        /\ \E d \in diagErrors :
              /\ d.summary = "Server Order Failed"
              /\ d.detail = "No service IDs returned from server order"
        /\ orderCalls = 1
        /\ queries = 0
        /\ serviceID = NullInt
        /\ state = None

\* Create ended on an order response without service identifiers
C10_Witness ==
    /\ op = "Create" /\ pc = "done"
    /\ IsSome(orderResp)
    /\ Get(orderResp).err = ""
    /\ Get(orderResp).OrderServiceIDs = <<>>
    /\ orderCalls = 1

----------------------------------------------------------------------------
(* C11 *)

TimeoutErr == "timeout waiting for server to be provisioned"

\* C11: a wait that ends at the deadline returns the timeout error carrying
\* the polled service identifier, and Create then ends with the
\* provisioning-timeout error naming that identifier, having issued exactly
\* the one order call, no cancel call, and having saved no state.
C11_TimeoutNamesServiceID ==
    /\ pollRet.err = TimeoutErr =>
          /\ pollRet.server = None
          /\ pollRet.serviceID = serviceID
    /\ (op = "Create" /\ pc = "done" /\ pollRet.err = TimeoutErr) =>
          /\ \E d \in diagErrors :
                /\ d.summary = "Server Provisioning Timeout"
                /\ d.detail = TimeoutErr
                /\ d.serviceID = serviceID
          /\ orderCalls = 1
          /\ cancelCalls = <<>>
          /\ state = None

\* a Create that ended on the deadline after at least one query
C11_Witness ==
    /\ op = "Create" /\ pc = "done"
    /\ pollRet.err = TimeoutErr
    /\ queries > 0
    /\ serviceID \in ServiceIDs

----------------------------------------------------------------------------
(* C12 *)

ResolutionRejected ==
    /\ op = "Create" /\ pc = "done"
    /\ \E d \in diagErrors :
          d.summary = "Invalid Instance Type and Location Combination"

\* the type/location pairs the suggestion lists of a Create name
ListedPairs ==
    {<<plan.InstanceType, alternatives.availableLocations[i]>> :
        i \in 1..Len(alternatives.availableLocations)}
    \cup
    {<<alternatives.availableTypes[i], plan.Location>> :
        i \in 1..Len(alternatives.availableTypes)}
    \cup
    UNION {{<<t, alternatives.typeLocationMap[t][i]>> :
               i \in 1..Len(alternatives.typeLocationMap[t])} :
           t \in DOMAIN alternatives.typeLocationMap}

\* C12: when Create rejects the type/location pair, every pair named in the
\* suggestion lists has positive auto-provisionable quantity in the
\* inventory snapshot the failed FindSKUByProductName call scanned.
C12_AlternativesFromResolvedSnapshot ==
    (ResolutionRejected /\ IsSome(scanned)) => ListedPairs \subseteq Get(scanned)

----------------------------------------------------------------------------
(* C13 *)

NameListed(items, productName) ==
    \E i \in 1..Len(items) : items[i].SkuProductName = productName

\* a direct resolution that fetched a snapshot and found no entry in it
ResolveNotFound ==
    /\ ResolveDone
    /\ Get(inventory).err = ""
    /\ ret.item = None

\* C13 as stated: the error of a failed resolution tells whether the
\* requested product name is missing from the inventory or is listed without
\* a qualifying entry, i.e. no snapshot of the other kind yields the same
\* error for the same request.
C13_ErrorTellsMissingName ==
    ResolveNotFound =>
       \A other \in InventoryResults :
          (/\ other.err = ""
           /\ FindSKUByProductName(other, request.productName,
                                   request.locationCode) = ret)
          => (NameListed(other.items, request.productName)
                <=> NameListed(Get(inventory).items, request.productName))

\* C13 amended: the error of a failed resolution depends only on whether a
\* location code was requested; it is the same error whether the product
\* name is missing from the inventory or listed without a qualifying entry.
C13_ErrorByLocationOnly ==
    ResolveNotFound =>
       ret.err = IF request.locationCode # ""
                 THEN "SKU not found with auto provision inventory in location"
                 ELSE "SKU not found with auto provision inventory"

\* a failed resolution of a name the snapshot does not list at all
C13_Witness ==
    /\ ResolveNotFound
    /\ request.locationCode # ""
    /\ Get(inventory).items # <<>>
    /\ ~NameListed(Get(inventory).items, request.productName)

----------------------------------------------------------------------------
(* C14 *)

OSRejected ==
    /\ op = "Create" /\ pc = "done"
    /\ \E d \in diagErrors : d.summary = "Invalid Operating System"

----------------------------------------------------------------------------
(* C15 *)

\* every computed attribute of the model st carries the value of record s
ComputedFrom(st, s) ==
    /\ st.ID = s.ID
    /\ st.ServiceID = s.ServiceID
    /\ st.PublicIP = s.PublicIP
    /\ st.RootPassword = s.RootPassword
    /\ st.ServiceDescription = s.ServiceDescription
    /\ st.PlanID = s.PlanID
    /\ st.DatacenterName = s.DatacenterName
    /\ st.DatacenterID = s.DatacenterID
    /\ st.LocationID = s.LocationID
    /\ st.ServerTypeInternal = s.ServerType

NameUpdateWarned ==
    /\ op = "Create" /\ pc = "done"
    /\ \E w \in diagWarnings : w.summary = "Friendly Name Update Failed"

\* C15: a Create whose friendly-name update failed ends with that warning
\* and no error, and has saved the record of the server the poller returned:
\* its computed attributes, the planned inputs and the planned friendly name.
C15_NameFailureOnlyWarns ==
    NameUpdateWarned =>
       /\ diagErrors = {}
       /\ IsSome(pollRet.server)
       /\ IsSome(state)
       /\ ComputedFrom(Get(state), Get(pollRet.server))
       /\ Get(state).InstanceType = plan.InstanceType
       /\ Get(state).Location = plan.Location
       /\ Get(state).OperatingSystem = plan.OperatingSystem
       /\ Get(state).SSHKeyLabels = plan.SSHKeyLabels
       /\ Get(state).FriendlyName = plan.FriendlyName
       /\ nameCalls = <<<<Get(pollRet.server).ID, plan.FriendlyName>>>>

\* a failed friendly-name update on a server found after an empty poll
C15_Witness ==
    /\ NameUpdateWarned
    /\ IsSome(state)
    /\ queries > 1
    /\ Get(state).PublicIP = "192.0.2.11"

----------------------------------------------------------------------------
(* C16 *)

\* C16, for the inventory fetch of Create's resolution step: when that fetch
\* fails in transport, Create ends with an error that reports the transport
\* failure, and not with the diagnosis of an unavailable type/location
\* combination.
C16_InventoryFailureReported ==
    (op = "Create" /\ pc = "done" /\ ret.err = "failed to get inventory") =>
       /\ \E d \in diagErrors : d.detail = "failed to get inventory"
       /\ \A d \in diagErrors :
             d.summary # "Invalid Instance Type and Location Combination"

----------------------------------------------------------------------------
(* C17, C18 *)

UpdateDone == op = "Update" /\ pc = "done"

ReplacementWarned ==
    \E w \in diagWarnings : w.summary = "Update Requires Replacement"

\* plan and prior state of an Update differ in the friendly name and in
\* no other input
OnlyNameDiffers ==
    /\ plan.FriendlyName # Get(prior).FriendlyName
    /\ plan.InstanceType = Get(prior).InstanceType
    /\ plan.Location = Get(prior).Location
    /\ plan.OperatingSystem = Get(prior).OperatingSystem
    /\ plan.Hostname = Get(prior).Hostname
    /\ plan.SSHKeyLabels = Get(prior).SSHKeyLabels

\* plan and prior state of an Update differ in the instance type and not in
\* the friendly name
TypeDiffersNameSame ==
    /\ plan.InstanceType # Get(prior).InstanceType
    /\ plan.FriendlyName = Get(prior).FriendlyName

\* C17 as stated: an Update whose only difference is the friendly name
\* issues the friendly-name call and no replacement warning; an Update whose
\* instance type differs, the friendly name being the same, emits the
\* replacement warning and issues no friendly-name call.
C17_RenameCallsTypeChangeWarns ==
    UpdateDone =>
       /\ OnlyNameDiffers =>
             /\ nameCalls = <<<<Get(prior).ID, plan.FriendlyName>>>>
             /\ ~ReplacementWarned
       /\ TypeDiffersNameSame =>
             /\ ReplacementWarned
             /\ nameCalls = <<>>

\* C17 amended: an Update whose only difference is the friendly name issues
\* the friendly-name call when the planned name is non-null and no call when
\* it is null, and no replacement warning either way; an Update whose
\* instance type differs, the friendly name being the same, emits the
\* replacement warning and issues no friendly-name call.
C17_RenameToValueCallsTypeChangeWarns ==
    UpdateDone =>
       /\ (OnlyNameDiffers /\ plan.FriendlyName # NullString) =>
             /\ nameCalls = <<<<Get(prior).ID, plan.FriendlyName>>>>
             /\ ~ReplacementWarned
       /\ (OnlyNameDiffers /\ plan.FriendlyName = NullString) =>
             /\ nameCalls = <<>>
             /\ ~ReplacementWarned
       /\ TypeDiffersNameSame =>
             /\ ReplacementWarned
             /\ nameCalls = <<>>

\* a finished Update that only drops the friendly name the state holds
C17_Witness ==
    /\ UpdateDone
    /\ OnlyNameDiffers
    /\ plan.FriendlyName = NullString
    /\ Get(prior).FriendlyName = "old"
    /\ state = Some(plan)

\* some input other than the friendly name differs between plan and state
OtherFieldDiffers ==
    \/ plan.InstanceType # Get(prior).InstanceType
    \/ plan.Location # Get(prior).Location
    \/ plan.OperatingSystem # Get(prior).OperatingSystem
    \/ plan.Hostname # Get(prior).Hostname
    \/ plan.SSHKeyLabels # Get(prior).SSHKeyLabels

\* C18 as stated: every Update in which an input other than the friendly
\* name differs ends with the replacement warning.
C18_OtherChangeAlwaysWarned ==
    (UpdateDone /\ OtherFieldDiffers) => ReplacementWarned

\* C18 amended: an Update in which an input other than the friendly name
\* differs ends with the replacement warning unless its friendly-name call
\* failed; it then ends with that error, without the warning and with the
\* state left as it was.
C18_OtherChangeWarnedUnlessNameFails ==
    (UpdateDone /\ OtherFieldDiffers) =>
       IF diagErrors = {}
       THEN ReplacementWarned
       ELSE /\ diagErrors = {Diag("Friendly Name Update Failed",
                                  "failed to update server friendly name")}
            /\ nameCalls = <<<<Get(prior).ID, plan.FriendlyName>>>>
            /\ ~ReplacementWarned
            /\ state = prior

\* a finished Update that changes only the hostname and carries the warning
C18_Witness ==
    /\ UpdateDone
    /\ plan.Hostname # Get(prior).Hostname
    /\ plan.InstanceType = Get(prior).InstanceType
    /\ plan.Location = Get(prior).Location
    /\ plan.OperatingSystem = Get(prior).OperatingSystem
    /\ plan.SSHKeyLabels = Get(prior).SSHKeyLabels
    /\ plan.FriendlyName = Get(prior).FriendlyName
    /\ ReplacementWarned
    /\ diagErrors = {}

----------------------------------------------------------------------------
(* C19, C20 *)

ServerReadDone == op = "Read" /\ pc = "done"
SSHKeyReadDone == op = "SSHKeyRead" /\ pc = "done"

\* the server list fetched by Read holds an entry with the state's service id
ServerPresent ==
    /\ Get(lastPoll).err = ""
    /\ \E i \in 1..Len(Get(lastPoll).servers) :
          Get(lastPoll).servers[i].ServiceID = Get(prior).ServiceID

\* the credential list fetched by Read holds an entry with the state's label
SSHKeyPresent ==
    /\ Get(lastKeys).err = ""
    /\ \E i \in 1..Len(Get(lastKeys).keys) :
          Get(lastKeys).keys[i].Label = Get(prior).Label

\* C19: Read looks the entity up by the state's stable key (service id of a
\* server, label of an SSH key); when the list cannot be fetched or holds no
\* entry with that key, Read ends with an error and resp.State is still the
\* prior state, neither rewritten nor removed; otherwise it ends without
\* error on an entry with that key.
C19_FailedReadKeepsState ==
    /\ ServerReadDone =>
          IF ServerPresent
          THEN /\ diagErrors = {}
               /\ IsSome(state)
               /\ Get(state).ServiceID = Get(prior).ServiceID
          ELSE /\ \E d \in diagErrors : d.summary = "Client Error"
               /\ state = prior
    /\ SSHKeyReadDone =>
          IF SSHKeyPresent
          THEN /\ diagErrors = {}
               /\ IsSome(state)
               /\ Get(state).Label = Get(prior).Label
          ELSE /\ \E d \in diagErrors : d.summary = "Client Error"
               /\ state = prior

\* a server Read that fetched a non-empty list without the state's service id
C19_Witness ==
    /\ ServerReadDone
    /\ Get(lastPoll).err = ""
    /\ Get(lastPoll).servers # <<>>
    /\ ~ServerPresent
    /\ state = prior
    /\ diagErrors # {}

\* C20: after a server Read that ended without error, every computed
\* attribute of the saved state (id, service id, public IP, root password,
\* service description, plan id, datacenter name and id, location id, server
\* type) is that of the first fetched record with the prior state's service
\* identifier.
C20_ReadOverwritesComputed ==
    (ServerReadDone /\ diagErrors = {}) =>
       /\ IsSome(state)
       /\ ComputedFrom(Get(state),
                       FirstMatch(Get(lastPoll).servers, Get(prior).ServiceID))

\* a successful Read whose prior state held another record's values
C20_Witness ==
    /\ ServerReadDone
    /\ diagErrors = {}
    /\ IsSome(state)
    /\ Get(prior).ID = "srv-a"
    /\ Get(state).ID = "srv-b"
    /\ Get(state).PublicIP # Get(prior).PublicIP
    /\ Get(state).PlanID # Get(prior).PlanID


SSHKeyCreateDone == op = "SSHKeyCreate" /\ pc = "done"

\* the CreateSSHKey call carrying the planned label and public key
CreationCall == <<"CreateSSHKey", plan.Label, plan.PublicKey>>

CreationFailed ==
    Diag("SSH Key Creation Failed", "failed to create SSH key") \in diagErrors

\* the list fetched by the lookup of Create holds an entry with the planned label
LabelListed ==
    /\ IsSome(lastKeys)
    /\ Get(lastKeys).err = ""
    /\ \E i \in 1..Len(Get(lastKeys).keys) :
          Get(lastKeys).keys[i].Label = plan.Label

C22_CreatedRecordEqualsInput ==
    (SSHKeyCreateDone /\ diagErrors = {}) =>
        /\ IsSome(state)
        /\ Get(state).Label = plan.Label
        /\ Get(state).PublicKey = plan.PublicKey


ServerDeleteDone == op = "Delete" /\ pc = "done"

SSHKeyDeleteDone == op = "SSHKeyDelete" /\ pc = "done"

\* no server-list query, order, display-name or credential-list call was issued
NoOtherServerCall ==
    /\ nameCalls = <<>> /\ orderCalls = 0 /\ queries = 0
    /\ lastPoll = None /\ lastKeys = None /\ inventory = None

\* C23: server Delete issues one CancelServer call carrying the state's server
\* id and SSH key Delete one DeleteSSHKey call carrying the state's numeric
\* id; neither issues another backend call, and when the call fails the
\* operation reports an error (and the state stays).
C23_DeleteIsOneAddressedCall ==
    /\ ServerDeleteDone =>
          /\ cancelCalls = <<Get(prior).ID>>
          /\ keyCalls = <<>>
          /\ NoOtherServerCall
          /\ callErr # "" => (diagErrors # {} /\ state = prior)
    /\ SSHKeyDeleteDone =>
          /\ keyCalls = <<<<"DeleteSSHKey", Get(prior).ID>>>>
          /\ cancelCalls = <<>>
          /\ NoOtherServerCall
          /\ callErr # "" => (diagErrors # {} /\ state = prior)

C23_Witness ==
    /\ SSHKeyDeleteDone
    /\ callErr # ""
    /\ keyCalls = <<<<"DeleteSSHKey", 13>>>>
    /\ Diag("Client Error", "failed to delete SSH key") \in diagErrors

SSHKeyUpdateDone == op = "SSHKeyUpdate" /\ pc = "done"

\* C24: SSH key Update issues no backend call for any plan; it adds the
\* replacement warning, reports no error and saves the plan.
C24_SSHKeyUpdateCallsNothing ==
    /\ op = "SSHKeyUpdate" =>
          /\ keyCalls = <<>> /\ cancelCalls = <<>>
          /\ NoOtherServerCall
    /\ SSHKeyUpdateDone =>
          /\ diagWarnings =
                {Diag("Update Not Supported", "SSH key changes require replacement")}
          /\ diagErrors = {}
          /\ state = Some(plan)

C24_Witness ==
    /\ SSHKeyUpdateDone
    /\ plan.PublicKey # Get(prior).PublicKey
    /\ plan.Label # Get(prior).Label
    /\ keyCalls = <<>>
    /\ diagWarnings # {}


ServerImportDone == op = "Import" /\ pc = "done"

SSHKeyImportDone == op = "SSHKeyImport" /\ pc = "done"

\* a decimal number: an optional sign followed by digits only, at least one
IsDecimalNumber(s) ==
    LET body == IF s # <<>> /\ s[1] \in {"+", "-"} THEN Tail(s) ELSE s IN
    /\ body # <<>>
    /\ \A i \in 1..Len(body) : body[i] \in Digits

\* the server list fetched by ImportState holds an entry with service id n
ServiceIDListed(n) ==
    /\ IsSome(lastPoll)
    /\ Get(lastPoll).err = ""
    /\ \E i \in 1..Len(Get(lastPoll).servers) :
          Get(lastPoll).servers[i].ServiceID = n

\* the credential list fetched by ImportState holds an entry with that label
ImportLabelListed ==
    /\ IsSome(lastKeys)
    /\ Get(lastKeys).err = ""
    /\ \E i \in 1..Len(Get(lastKeys).keys) :
          Get(lastKeys).keys[i].Label = Get(importID)

\* C25: a server import whose id is not a decimal number ends with an error
\* before any backend call; a server import whose number is the service id of
\* no listed server, and an SSH key import whose id is the label of no listed
\* credential, end with an error; no failed import saves state, and a
\* successful one saves the entry with that service id, respectively label.
C25_ImportByServiceIDOrLabel ==
    /\ ServerImportDone =>
          /\ keyCalls = <<>> /\ cancelCalls = <<>> /\ nameCalls = <<>>
          /\ ~IsDecimalNumber(Get(importID)) =>
                /\ Diag("Import Error", "Invalid service ID format") \in diagErrors
                /\ lastPoll = None
                /\ state = None
          /\ IsDecimalNumber(Get(importID)) =>
                /\ IsSome(lastPoll)
                /\ ~ServiceIDListed(Atoi(Get(importID)).value) =>
                      (diagErrors # {} /\ state = None)
                /\ ServiceIDListed(Atoi(Get(importID)).value) =>
                      /\ diagErrors = {}
                      /\ IsSome(state)
                      /\ Get(state).ServiceID = Atoi(Get(importID)).value
    /\ SSHKeyImportDone =>
          /\ keyCalls = <<<<"GetSSHKeys">>>>
          /\ cancelCalls = <<>> /\ nameCalls = <<>> /\ lastPoll = None
          /\ ~ImportLabelListed => (diagErrors # {} /\ state = None)
          /\ ImportLabelListed =>
                /\ diagErrors = {}
                /\ IsSome(state)
                /\ Get(state).Label = Get(importID)

C25_Witness ==
    /\ ServerImportDone
    /\ Get(importID) = <<"5", "0", "0", "x">>
    /\ Diag("Import Error", "Invalid service ID format") \in diagErrors
    /\ lastPoll = None


\* the indexes of the entries of a snapshot that satisfy the request
QualifyingIndexes ==
    {i \in 1..Len(Get(inventory).items) :
        Qualifies(Get(inventory).items[i], request.productName,
                  request.locationCode)}

\* C26: FindSKUByProductName returns the qualifying entry with the smallest
\* index of the inventory list; entries before it, among them entries with
\* the requested name but another location or no auto-provisionable
\* quantity, do not end the scan.
C26_FirstQualifyingInListOrder ==
    (ResolveDone /\ Get(inventory).err = "" /\ QualifyingIndexes # {}) =>
        LET first == CHOOSE i \in QualifyingIndexes :
                        \A j \in QualifyingIndexes : i <= j IN
        /\ ret.err = ""
        /\ ret.item = Some(Get(inventory).items[first])

\* two different entries qualify and the earlier one is returned
C26_Witness ==
    /\ ResolveDone
    /\ Get(inventory).err = ""
    /\ QualifyingIndexes = {1, 2}
    /\ Get(inventory).items[1] # Get(inventory).items[2]
    /\ ret.item = Some(Get(inventory).items[1])


\* the queries a full provisioning wait has room for
MaxPollQueries == ProvisioningTimeout \div SleepInterval

PollReturned == op = "waitForServerProvisioning" /\ pc = "returned"

\* the poller returned a server, the cancellation error or the timeout error,
\* and only one of them
OneOutcome ==
    \/ IsSome(pollRet.server) /\ pollRet.err = ""
    \/ pollRet.server = None /\ pollRet.err = "context canceled"
    \/ pollRet.server = None /\ pollRet.err = TimeoutErr

\* C27: for every sequence of answers the poller returns; until then it has
\* issued at most 60 server-list queries, and what it returns is exactly one
\* of a server, the cancellation error and the timeout error.
C27_PollerTerminates ==
    /\ <>PollReturned
    /\ [](queries <= MaxPollQueries)
    /\ [](PollReturned => OneOutcome)

\* a full wait that never saw the server: 60 queries, then the timeout error
C27_Witness ==
    /\ PollReturned
    /\ timeout = ProvisioningTimeout
    /\ queries = MaxPollQueries
    /\ pollRet.err = TimeoutErr


CreateSaved == op = "Create" /\ IsSome(state)

RenamePlanned ==
    /\ plan.FriendlyName # NullString
    /\ plan.FriendlyName # Get(prior).FriendlyName

\* C30: a server Update that ended without error has saved the plan, every
\* field of it, the hostname, SSH key labels, instance type, location and
\* operating system that only drew the replacement warning included; Update
\* issues no backend call but the friendly-name update, addressed to the
\* state's server id, and issues that one exactly when the planned friendly
\* name is non-null and differs from the state's.
C30_UpdateSavesPlanCallsOnlyRename ==
    UpdateDone =>
        /\ diagErrors = {} =>
              /\ state = Some(plan)
              /\ Get(state).Hostname = plan.Hostname
              /\ Get(state).SSHKeyLabels = plan.SSHKeyLabels
              /\ Get(state).InstanceType = plan.InstanceType
              /\ Get(state).Location = plan.Location
              /\ Get(state).OperatingSystem = plan.OperatingSystem
        /\ nameCalls = IF RenamePlanned
                       THEN <<<<Get(prior).ID, plan.FriendlyName>>>>
                       ELSE <<>>
        /\ keyCalls = <<>> /\ cancelCalls = <<>>
        /\ orderCalls = 0 /\ queries = 0
        /\ lastPoll = None /\ lastKeys = None /\ inventory = None

\* instance type and hostname changed, the name did not: a warning, no
\* call, and the planned values in state
C30_Witness ==
    /\ UpdateDone
    /\ diagErrors = {}
    /\ ReplacementWarned
    /\ plan.InstanceType # Get(prior).InstanceType
    /\ plan.Hostname # Get(prior).Hostname
    /\ nameCalls = <<>>
    /\ Get(state).InstanceType = plan.InstanceType
    /\ Get(state).InstanceType # Get(prior).InstanceType

====
